---- MODULE Spec2Model ----
(***************************************************************************)
(* Rental quoting backend: the quote orchestrator (run_quote,              *)
(* run_quote_loop), the pricing engine (_compute), the audit log           *)
(* (start_run, add_step, finish_run) and the feedback route.               *)
(*                                                                         *)
(* Conventions                                                             *)
(*   - Python Optional values: None is <<>>, a present value v is <<v>>.   *)
(*   - Python str values that the code inspects character by character     *)
(*     (the customer message) are sequences of one-character strings.      *)
(*   - Money is kept in whole cents; percentages in hundredths of a        *)
(*     percent (8.25% is 825); round(x, 2) is RoundDiv.                    *)
(***************************************************************************)
EXTENDS Integers, Sequences, FiniteSets, TLC

VARIABLES
    runs,       \* the runs table: row i is the run with id i
    steps,      \* the steps table, grouped by run_id, each group in id order
    req,        \* per quote request: the position and locals of run_quote
    fb,         \* the response of the latest feedback call
    nfb,        \* number of feedback calls made so far
    call        \* a direct call of a library function: its arguments and result

vars == <<runs, steps, req, fb, nfb, call>>

(***************************************************************************)
(* Bounds of the model                                                     *)
(***************************************************************************)
MaxFeedback == 2

(***************************************************************************)
(* Optional values                                                         *)
(***************************************************************************)
None == <<>>
Some(v) == <<v>>
IsNone(o) == o = <<>>
Val(o) == o[1]

\* Body applied to the value of v, v evaluated once
Let(v, Body(_)) == CHOOSE r \in {Body(b) : b \in {v}} : TRUE

Max(a, b) == IF a >= b THEN a ELSE b
Min(a, b) == IF a <= b THEN a ELSE b

(***************************************************************************)
(* Python's round(x, 2) on amounts kept in cents.  x is a binary float, so *)
(* the result is the nearest cent, and where the decimal value is an exact *)
(* half cent the float lies on one side of it.  The tables hold the side   *)
(* CPython's floats fall on for the half cents the requests and calls of   *)
(* this model produce: <<parts, pct>> stands for                           *)
(* round((parts[1] + parts[2] + ...) * pct / 100.0, 2), pct in hundredths  *)
(* of a percent; an amount of the goodwill tables for round(amount * 0.10, *)
(* 2).  A half cent outside the tables (the model produces none) goes to   *)
(* the even cent.                                                          *)
(***************************************************************************)
HalfCentUp ==
    {<< <<212>>, 1250 >>, << <<250>>, 1500 >>, << <<956>>, 1250 >>,
     << <<1500>>, 1250 >>, << <<2250>>, 1500 >>, << <<3060>>, 1250 >>,
     << <<3200, 0, 3000>>, 825 >>, << <<3600, 0, 3000>>, 825 >>,
     << <<4000, 0, 3000>>, 825 >>, << <<5100>>, 1250 >>,
     << <<12000, 0, 3000>>, 825 >>, << <<15000, 1200, 12000>>, 825 >>,
     << <<25500>>, 1250 >>, << <<38356>>, 1250 >>, << <<39100>>, 1250 >>,
     << <<39780>>, 1250 >>, << <<45900>>, 1250 >>,
     << <<135000, 0, 12000>>, 825 >>, << <<135000, 10800, 12000>>, 825 >>,
     << <<229500>>, 1250 >>}
HalfCentDown ==
    {<< <<276>>, 1250 >>, << <<340>>, 1250 >>, << <<500>>, 1250 >>,
     << <<750>>, 1500 >>, << <<1020>>, 1250 >>, << <<1200, 0, 3000>>, 825 >>,
     << <<1600, 0, 3000>>, 825 >>, << <<1700>>, 1250 >>,
     << <<2000, 0, 3000>>, 825 >>, << <<4800, 0, 3000>>, 825 >>,
     << <<6000, 0, 3000>>, 825 >>, << <<9180>>, 1250 >>,
     << <<9600, 0, 3000>>, 825 >>, << <<10800, 0, 3000>>, 825 >>,
     << <<13260>>, 1250 >>, << <<15000, 0, 12000>>, 825 >>,
     << <<15300>>, 1250 >>, << <<18000, 0, 3000>>, 825 >>,
     << <<38420>>, 1250 >>, << <<45000, 0, 12000>>, 825 >>,
     << <<45000, 3600, 12000>>, 825 >>, << <<76500>>, 1250 >>,
     << <<115260>>, 1250 >>, << <<117300>>, 1250 >>}
GoodwillHalfCentUp == {}
GoodwillHalfCentDown == {}

RECURSIVE Sum(_)
Sum(parts) == IF parts = <<>> THEN 0 ELSE Head(parts) + Sum(Tail(parts))

\* the integer nearest to num / den, `up` telling the side of an exact half;
\* num >= 0, den > 0 in every use
RoundDiv(num, den, up) ==
    LET q == num \div den
        r == num % den
    IN  IF 2 * r < den THEN q
        ELSE IF 2 * r > den THEN q + 1
        ELSE IF up THEN q + 1 ELSE q

\* round(x * pct / 100.0, 2), x the float sum of the amounts of parts
RoundPct(parts, pct) ==
    RoundDiv(Sum(parts) * pct, 10000,
             CASE <<parts, pct>> \in HalfCentUp -> TRUE
               [] <<parts, pct>> \in HalfCentDown -> FALSE
               [] OTHER -> ((Sum(parts) * pct) \div 10000) % 2 = 1)

(***************************************************************************)
(* The read-only store: rates, inventory names, policies.                  *)
(* CHAIR-CHIAVARI is a catalog SKU with an inventory row and no rate row.  *)
(***************************************************************************)
Rates ==
    [sku \in {"CHAIR-FOLD-WHT", "TENT-20x20", "TABLE-8FT", "LINEN-WHT"} |->
        CASE sku = "CHAIR-FOLD-WHT" -> [daily |-> 200, delivery_fee_base |-> 2500]
          [] sku = "TENT-20x20"     -> [daily |-> 15000, delivery_fee_base |-> 12000]
          [] sku = "TABLE-8FT"      -> [daily |-> 1000, delivery_fee_base |-> 3000]
          \* a row whose delivery_fee_base is the column default
          [] sku = "LINEN-WHT"      -> [daily |-> 125, delivery_fee_base |-> 0]]

Inventory ==
    [sku \in {"CHAIR-FOLD-WHT", "CHAIR-CHIAVARI", "TABLE-8FT", "LINEN-WHT"} |->
        CASE sku = "CHAIR-FOLD-WHT" -> "Folding Chair (White)"
          [] sku = "CHAIR-CHIAVARI" -> "Chiavari Chair"
          [] sku = "TABLE-8FT"      -> "8ft Banquet Table"
          [] sku = "LINEN-WHT"      -> "Linen (White)"]

Policies ==
    [default_damage_waiver |-> [pct |-> 800],
     tax_rate              |-> [pct |-> 825],
     tier_discounts        |-> [A |-> [pct |-> 1500], B |-> [pct |-> 1000]]]

(***************************************************************************)
(* _fetch_rate_for_sku: the rate row, or ValueError when there is none, or *)
(* DatabaseError when the store fails (dbFail).                            *)
(***************************************************************************)
_fetch_rate_for_sku_zeroRate(sku, dbFail) ==
    IF dbFail THEN [ok |-> FALSE, exc |-> "DatabaseError"]
    ELSE IF IsNone(sku) THEN [ok |-> FALSE, exc |-> "ValueError"]
    ELSE IF Val(sku) \in DOMAIN Rates THEN [ok |-> TRUE, rate |-> Rates[Val(sku)]]
    ELSE [ok |-> TRUE, rate |-> [daily |-> 0, delivery_fee_base |-> 0]]

_fetch_rate_for_sku(sku, dbFail) ==
    IF dbFail THEN [ok |-> FALSE, exc |-> "DatabaseError"]
    ELSE IF IsNone(sku) \/ Val(sku) \notin DOMAIN Rates
         THEN [ok |-> FALSE, exc |-> "ValueError"]
         ELSE [ok |-> TRUE, rate |-> Rates[Val(sku)]]

(***************************************************************************)
(* _fetch_name_for_sku: the inventory name; the SKU itself when there is   *)
(* no row or when the store fails.                                         *)
(***************************************************************************)
_fetch_name_for_sku(sku, dbFail) ==
    IF dbFail \/ Val(sku) \notin DOMAIN Inventory THEN Val(sku) ELSE Inventory[Val(sku)]

(***************************************************************************)
(* Store faults during one _compute call: none, or the rate query or the   *)
(* name query of the item at position `at` fails.                          *)
(***************************************************************************)
NoFault == [at |-> 0, what |-> "none"]
ComputeFaults(items) ==
    {NoFault} \cup [at : 1..Len(items), what : {"rate", "name"}]

(***************************************************************************)
(* The loop of _compute over the items: line items, running subtotal and   *)
(* max delivery base, or the exception raised at the first failing item.   *)
(***************************************************************************)
\* the loop with the delivery bases of the items added up
RECURSIVE PriceLines_sumDelivery(_, _, _, _, _)
PriceLines_sumDelivery(items, days, fault, i, acc) ==
    IF i > Len(items) THEN acc
    ELSE
      LET it   == items[i]
          qty  == it.quantity
          got  == _fetch_rate_for_sku(it.sku, fault.at = i /\ fault.what = "rate")
      IN  IF ~got.ok THEN [ok |-> FALSE, exc |-> got.exc]
          ELSE
            LET name     == _fetch_name_for_sku(it.sku, fault.at = i /\ fault.what = "name")
                unit     == got.rate.daily * days
                extended == unit * qty
                line     == [sku |-> Val(it.sku), name |-> name, qty |-> qty,
                             unitPrice |-> unit, subtotal |-> extended]
            IN  Let([ok |-> TRUE,
                     line_items |-> Append(acc.line_items, line),
                     subtotal |-> acc.subtotal + extended,
                     max_delivery |-> acc.max_delivery + got.rate.delivery_fee_base],
                    LAMBDA next : PriceLines_sumDelivery(items, days, fault, i + 1, next))

RECURSIVE PriceLines(_, _, _, _, _)
PriceLines(items, days, fault, i, acc) ==
    IF i > Len(items) THEN acc
    ELSE
      LET it   == items[i]
          qty  == it.quantity
          got  == _fetch_rate_for_sku(it.sku, fault.at = i /\ fault.what = "rate")
      IN  IF ~got.ok THEN [ok |-> FALSE, exc |-> got.exc]
          ELSE
            LET name     == _fetch_name_for_sku(it.sku, fault.at = i /\ fault.what = "name")
                unit     == got.rate.daily * days
                extended == unit * qty
                line     == [sku |-> Val(it.sku), name |-> name, qty |-> qty,
                             unitPrice |-> unit, subtotal |-> extended]
            IN  Let([ok |-> TRUE,
                     line_items |-> Append(acc.line_items, line),
                     subtotal |-> acc.subtotal + extended,
                     max_delivery |-> Max(acc.max_delivery, got.rate.delivery_fee_base)],
                    LAMBDA next : PriceLines(items, days, fault, i + 1, next))

PolicyPct(policies, key) ==
    IF key \in DOMAIN policies /\ "pct" \in DOMAIN policies[key] THEN policies[key].pct ELSE 0

\* a tier discount that is 10% for a tier without an entry
TierPct_defaultTen(policies, tier) ==
    IF "tier_discounts" \in DOMAIN policies /\ tier \in DOMAIN policies.tier_discounts
    THEN policies.tier_discounts[tier].pct
    ELSE 1000

TierPct(policies, tier) ==
    IF "tier_discounts" \in DOMAIN policies /\ tier \in DOMAIN policies.tier_discounts
    THEN policies.tier_discounts[tier].pct
    ELSE 0

Fee(name, amount) == [name |-> name, amount |-> amount]

(***************************************************************************)
(* _compute: the priced quote, or the exception of the first failing item. *)
(***************************************************************************)
_compute(items, days, policies, tier, fault) ==
  Let(PriceLines(items, days, fault, 1,
                 [ok |-> TRUE, line_items |-> <<>>, subtotal |-> 0, max_delivery |-> 0]),
      LAMBDA lines :
        IF ~lines.ok THEN lines
        ELSE
          LET subtotal        == lines.subtotal
              discount_pct    == TierPct(policies, tier)
              discount_amount == RoundPct(<<subtotal>>, discount_pct)
              subtotal_after_discount == subtotal - discount_amount
              dw_pct          == PolicyPct(policies, "default_damage_waiver")
              damage_waiver   == IF dw_pct # 0
                                 THEN RoundPct(<<subtotal_after_discount>>, dw_pct) ELSE 0
              delivery_fee    == lines.max_delivery
              fees            == (IF damage_waiver # 0
                                  THEN <<Fee("Damage Waiver", damage_waiver)>> ELSE <<>>)
                                 \o (IF delivery_fee # 0
                                     THEN <<Fee("Delivery & Pickup", delivery_fee)>> ELSE <<>>)
              taxable         == subtotal_after_discount + damage_waiver + delivery_fee
              tax_pct         == PolicyPct(policies, "tax_rate")
              tax             == IF tax_pct # 0
                                 THEN RoundPct(<<subtotal_after_discount, damage_waiver,
                                                 delivery_fee>>, tax_pct)
                                 ELSE 0
              total           == taxable + tax
          IN  [ok |-> TRUE,
               quote |-> [items |-> lines.line_items,
                          subtotal |-> subtotal_after_discount,
                          subtotal_before_discount |-> subtotal,
                          discount_pct |-> discount_pct,
                          discount_amount |-> discount_amount,
                          fees |-> fees,
                          tax |-> tax,
                          total |-> total,
                          days |-> days]])

(***************************************************************************)
(* Character strings: sequences of one-character strings.                  *)
(***************************************************************************)
Digits == {"0", "1", "2", "3", "4", "5", "6", "7", "8", "9"}
UpperAlpha == <<"A","B","C","D","E","F","G","H","I","J","K","L","M",
                "N","O","P","Q","R","S","T","U","V","W","X","Y","Z">>
LowerAlpha == <<"a","b","c","d","e","f","g","h","i","j","k","l","m",
                "n","o","p","q","r","s","t","u","v","w","x","y","z">>
Letters == {UpperAlpha[i] : i \in 1..26} \cup {LowerAlpha[i] : i \in 1..26}
Spaces == {" ", "\t", "\n"}
Quotes == {"\""}

IsDigit(c) == c \in Digits
IsSpace(c) == c \in Spaces
IsWordCh(c) == c \in Letters \/ c \in Digits \/ c = "_"

DigitVal(c) ==
    CASE c = "0" -> 0 [] c = "1" -> 1 [] c = "2" -> 2 [] c = "3" -> 3 [] c = "4" -> 4
      [] c = "5" -> 5 [] c = "6" -> 6 [] c = "7" -> 7 [] c = "8" -> 8 [] c = "9" -> 9

\* int(s) for a string of digits
RECURSIVE IntOf(_)
IntOf(s) == IF s = <<>> THEN 0 ELSE 10 * IntOf(SubSeq(s, 1, Len(s) - 1)) + DigitVal(s[Len(s)])

\* str.lower()
LowerCh(c) ==
    IF \E i \in 1..26 : UpperAlpha[i] = c
    THEN LowerAlpha[CHOOSE i \in 1..26 : UpperAlpha[i] = c]
    ELSE c
Lower(s) == [i \in 1..Len(s) |-> LowerCh(s[i])]

Drop(s, n) == SubSeq(s, n + 1, Len(s))
Take(s, n) == SubSeq(s, 1, n)

\* number of leading characters of s that satisfy the class
RECURSIVE SpanLen(_, _)
SpanLen(s, class) ==
    IF s # <<>> /\ s[1] \in class THEN 1 + SpanLen(Tail(s), class) ELSE 0

LStrip(s) == Drop(s, SpanLen(s, Spaces))
RECURSIVE RStrip(_)
RStrip(s) == IF s # <<>> /\ IsSpace(s[Len(s)]) THEN RStrip(Take(s, Len(s) - 1)) ELSE s
\* str.strip()
Strip(s) == RStrip(LStrip(s))

StartsWith(s, p) == Len(s) >= Len(p) /\ Take(s, Len(p)) = p
\* p occurs in s at position i (1-based)
At(s, i, p) == i >= 1 /\ i + Len(p) - 1 <= Len(s) /\ SubSeq(s, i, i + Len(p) - 1) = p
\* Python's `p in s`
Contains(s, p) == \E i \in 1..(Len(s) - Len(p) + 1) : At(s, i, p)
\* regex \b between positions i-1 and i of s (i in 1..Len(s)+1)
Boundary(s, i) ==
    LET before == i > 1 /\ IsWordCh(s[i - 1])
        after  == i <= Len(s) /\ IsWordCh(s[i])
    IN  before # after

S_inch == <<"i", "n", "c", "h">>
S_foot == <<"f", "o", "o", "t">>
S_in   == <<"i", "n">>
S_ft   == <<"f", "t">>
S_sp   == <<" ">>

(***************************************************************************)
(* normalize_text: the seven substitutions, in the order of the code.      *)
(***************************************************************************)
\* re.sub(r'(\d+)["]', r'\1 inch'): a quote right after a digit
RECURSIVE SubQuoteInch(_, _)
SubQuoteInch(s, i) ==
    IF i > Len(s) THEN <<>>
    ELSE IF s[i] \in Quotes /\ i > 1 /\ IsDigit(s[i - 1])
         THEN S_sp \o S_inch \o SubQuoteInch(s, i + 1)
         ELSE <<s[i]>> \o SubQuoteInch(s, i + 1)

\* re.sub(r'(\d+)-WORD', r'\1 WORD'): the hyphen between a digit and WORD
RECURSIVE SubHyphen(_, _, _)
SubHyphen(s, i, word) ==
    IF i > Len(s) THEN <<>>
    ELSE IF s[i] = "-" /\ i > 1 /\ IsDigit(s[i - 1]) /\ At(s, i + 1, word)
         THEN S_sp \o SubHyphen(s, i + 1, word)
         ELSE <<s[i]>> \o SubHyphen(s, i + 1, word)

\* re.sub(r'(\d+)\s*ABBR\b', r'\1 FULL') with `ws` telling whether \s* is in
\* the pattern: ABBR after a digit (and optional spaces), ending at a \b
RECURSIVE SubUnit(_, _, _, _, _)
SubUnit(s, i, abbr, full, ws) ==
    IF i > Len(s) THEN <<>>
    ELSE
      LET k == IF ws THEN SpanLen(Drop(s, i - 1), Spaces) ELSE 0
          j == i + k
      IN  IF i > 1 /\ IsDigit(s[i - 1]) /\ At(s, j, abbr) /\ Boundary(s, j + Len(abbr))
          THEN S_sp \o full \o SubUnit(s, j + Len(abbr), abbr, full, ws)
          ELSE <<s[i]>> \o SubUnit(s, i + 1, abbr, full, ws)

\* a substitution that deletes the whitespace instead of leaving one space
RECURSIVE CollapseSpaces_deleted(_)
CollapseSpaces_deleted(s) ==
    IF s = <<>> THEN <<>>
    ELSE IF IsSpace(s[1])
         THEN CollapseSpaces_deleted(Drop(s, SpanLen(s, Spaces)))
         ELSE <<s[1]>> \o CollapseSpaces_deleted(Tail(s))

\* re.sub(r'\s+', ' ')
RECURSIVE CollapseSpaces(_)
CollapseSpaces(s) ==
    IF s = <<>> THEN <<>>
    ELSE IF IsSpace(s[1])
         THEN S_sp \o CollapseSpaces(Drop(s, SpanLen(s, Spaces)))
         ELSE <<s[1]>> \o CollapseSpaces(Tail(s))

normalize_text(text) ==
    LET t0 == Strip(Lower(text))
        t1 == SubQuoteInch(t0, 1)
        t2 == SubHyphen(t1, 1, S_inch)
        t3 == SubUnit(t2, 1, S_in, S_inch, FALSE)
        t4 == SubHyphen(t3, 1, S_foot)
        t5 == SubUnit(t4, 1, S_ft, S_foot, FALSE)
        t6 == SubUnit(t5, 1, S_ft, S_foot, TRUE)
    IN  Strip(CollapseSpaces(t6))

(***************************************************************************)
(* ITEM_SYNONYMS, in the order of the dict literal: the entries of the     *)
(* folding-chair, chiavari, table and tent families that the model's       *)
(* inputs can reach.  The table entries include keys that normalize_text   *)
(* rewrites, to another key ("8ft table") or to no key at all              *)
(* ("8ft banquet table").                                                  *)
(***************************************************************************)
ITEM_SYNONYMS ==
    <<[text |-> <<"f", "o", "l", "d", "i", "n", "g", " ", "c", "h", "a", "i", "r">>, sku |-> "CHAIR-FOLD-WHT"],
      [text |-> <<"c", "h", "a", "i", "r">>, sku |-> "CHAIR-FOLD-WHT"],
      [text |-> <<"c", "h", "a", "i", "r", "s">>, sku |-> "CHAIR-FOLD-WHT"],
      [text |-> <<"c", "h", "i", "a", "v", "a", "r", "i">>, sku |-> "CHAIR-CHIAVARI"],
      [text |-> <<"6", "0", " ", "i", "n", "c", "h", " ", "r", "o", "u", "n", "d", " ", "t", "a", "b", "l", "e">>, sku |-> "TABLE-60RND"],
      [text |-> <<"6", "0", "\"", " ", "r", "o", "u", "n", "d", " ", "t", "a", "b", "l", "e">>, sku |-> "TABLE-60RND"],
      [text |-> <<"r", "o", "u", "n", "d", " ", "t", "a", "b", "l", "e">>, sku |-> "TABLE-60RND"],
      [text |-> <<"8", "f", "t", " ", "b", "a", "n", "q", "u", "e", "t", " ", "t", "a", "b", "l", "e">>, sku |-> "TABLE-8FT-RECT"],
      [text |-> <<"8", "f", "t", " ", "t", "a", "b", "l", "e">>, sku |-> "TABLE-8FT-RECT"],
      [text |-> <<"8", " ", "f", "o", "o", "t", " ", "t", "a", "b", "l", "e">>, sku |-> "TABLE-8FT-RECT"],
      [text |-> <<"b", "a", "n", "q", "u", "e", "t", " ", "t", "a", "b", "l", "e">>, sku |-> "TABLE-8FT-RECT"],
      [text |-> <<"t", "a", "b", "l", "e">>, sku |-> "TABLE-8FT-RECT"],
      [text |-> <<"t", "e", "n", "t">>, sku |-> "TENT-20x20"],
      [text |-> <<"t", "e", "n", "t", "s">>, sku |-> "TENT-20x20"]>>

\* WORD_NUMBERS, in the order of the dict literal
WORD_NUMBERS ==
    <<[word |-> <<"a">>, n |-> 1],
      [word |-> <<"a", "n">>, n |-> 1],
      [word |-> <<"o", "n", "e">>, n |-> 1],
      [word |-> <<"t", "w", "o">>, n |-> 2],
      [word |-> <<"t", "h", "r", "e", "e">>, n |-> 3],
      [word |-> <<"f", "o", "u", "r">>, n |-> 4],
      [word |-> <<"f", "i", "v", "e">>, n |-> 5],
      [word |-> <<"s", "i", "x">>, n |-> 6],
      [word |-> <<"s", "e", "v", "e", "n">>, n |-> 7],
      [word |-> <<"e", "i", "g", "h", "t">>, n |-> 8],
      [word |-> <<"n", "i", "n", "e">>, n |-> 9],
      [word |-> <<"t", "e", "n">>, n |-> 10],
      [word |-> <<"e", "l", "e", "v", "e", "n">>, n |-> 11],
      [word |-> <<"t", "w", "e", "l", "v", "e">>, n |-> 12],
      [word |-> <<"d", "o", "z", "e", "n">>, n |-> 12],
      [word |-> <<"t", "h", "i", "r", "t", "e", "e", "n">>, n |-> 13],
      [word |-> <<"f", "o", "u", "r", "t", "e", "e", "n">>, n |-> 14],
      [word |-> <<"f", "i", "f", "t", "e", "e", "n">>, n |-> 15],
      [word |-> <<"s", "i", "x", "t", "e", "e", "n">>, n |-> 16],
      [word |-> <<"s", "e", "v", "e", "n", "t", "e", "e", "n">>, n |-> 17],
      [word |-> <<"e", "i", "g", "h", "t", "e", "e", "n">>, n |-> 18],
      [word |-> <<"n", "i", "n", "e", "t", "e", "e", "n">>, n |-> 19],
      [word |-> <<"t", "w", "e", "n", "t", "y">>, n |-> 20],
      [word |-> <<"t", "h", "i", "r", "t", "y">>, n |-> 30],
      [word |-> <<"f", "o", "r", "t", "y">>, n |-> 40],
      [word |-> <<"f", "i", "f", "t", "y">>, n |-> 50],
      [word |-> <<"s", "i", "x", "t", "y">>, n |-> 60],
      [word |-> <<"s", "e", "v", "e", "n", "t", "y">>, n |-> 70],
      [word |-> <<"e", "i", "g", "h", "t", "y">>, n |-> 80],
      [word |-> <<"n", "i", "n", "e", "t", "y">>, n |-> 90],
      [word |-> <<"h", "u", "n", "d", "r", "e", "d">>, n |-> 100]>>

\* the verbs of prefix_pattern, in the order of its alternation
PrefixVerbs ==
    <<<<"n", "e", "e", "d">>,
      <<"w", "a", "n", "t">>,
      <<"r", "e", "q", "u", "i", "r", "e">>,
      <<"l", "o", "o", "k", "i", "n", "g", " ", "f", "o", "r">>,
      <<"g", "i", "v", "e", " ", "m", "e">>,
      <<"g", "e", "t", " ", "m", "e">>,
      <<"g", "e", "t">>,
      <<"s", "e", "n", "d">>,
      <<"o", "r", "d", "e", "r">>>>

S_qty == <<"q", "t", "y">>
S_and == <<"a", "n", "d">>
S_a   == <<"a">>
S_an  == <<"a", "n">>

\* the characters of s up to its first whitespace
FirstToken(s) == Take(s, SpanLen(s, {s[i] : i \in 1..Len(s)} \ Spaces))

IsWordNumber(w) == \E i \in 1..Len(WORD_NUMBERS) : WORD_NUMBERS[i].word = w
WordNumber(w) == WORD_NUMBERS[CHOOSE i \in 1..Len(WORD_NUMBERS) : WORD_NUMBERS[i].word = w].n

\* the tail `\s+(.+)$` of a pattern, applied to what is left of the segment
WsRestOk(t) == Len(t) >= 2 /\ IsSpace(t[1])
WsRest(t) == Strip(t)

LineItem(qty, name, raw, size) ==
    [qty |-> qty, normalizedName |-> name, rawText |-> raw, attributes |-> size]

(***************************************************************************)
(* Pattern 3 of _parse_single_segment,                                     *)
(*   ^(\d+)\s+(\d+)\s*(inch|foot|ft|in)?\s*(.+)$                           *)
(* with the backtracking of the regex engine: the second number gives up   *)
(* its last digit to (.+) when nothing follows it, and a unit is taken     *)
(* only when something is left after it.                                   *)
(***************************************************************************)
SizeUnits == <<S_inch, S_foot, S_ft, S_in>>
SizePattern(segment) ==
    LET d1  == SpanLen(segment, Digits)
        t1  == Drop(segment, d1)
        w1  == SpanLen(t1, Spaces)
        t2  == Drop(t1, w1)
        d2  == SpanLen(t2, Digits)
        R   == LStrip(Drop(t2, d2))
        \* re.IGNORECASE: the unit is recognised in any case
        fits(u) == StartsWith(Lower(R), u) /\ LStrip(Drop(R, Len(u))) # <<>>
        hasUnit == \E k \in 1..4 : fits(SizeUnits[k])
        unit == SizeUnits[CHOOSE k \in 1..4 :
                              fits(SizeUnits[k]) /\ \A j \in 1..(k - 1) : ~fits(SizeUnits[j])]
        \* "in" and "ft" are spelled out, "inch" and "foot" stay as written
        full(u) == IF u = S_in THEN S_inch ELSE IF u = S_ft THEN S_foot ELSE Take(R, Len(u))
    IN  IF d1 = 0 \/ w1 = 0 \/ d2 = 0 THEN [ok |-> FALSE]
        ELSE IF R # <<>>
        THEN [ok |-> TRUE, qty |-> IntOf(Take(segment, d1)), size_num |-> Take(t2, d2),
              size_unit |-> IF hasUnit THEN full(unit) ELSE S_inch,
              rest |-> Strip(IF hasUnit THEN Drop(R, Len(unit)) ELSE R)]
        ELSE IF d2 >= 2
        THEN [ok |-> TRUE, qty |-> IntOf(Take(segment, d1)), size_num |-> Take(t2, d2 - 1),
              size_unit |-> S_inch, rest |-> <<t2[d2]>>]
        ELSE [ok |-> FALSE]

\* a parser that tries the plain "N item" pattern before the "N size item"
\* pattern
_parse_single_segment_plainNumberFirst(seg) ==
    LET segment == Strip(seg)
        low == Lower(segment)
        qk == SpanLen(Drop(low, 3), Spaces \cup {":"})
        qd == SpanLen(Drop(low, 3 + qk), Digits)
        qr == Drop(segment, 3 + qk + qd)
        p1 == StartsWith(low, S_qty) /\ qd >= 1 /\ WsRestOk(qr)
        d  == SpanLen(segment, Digits)
        r4 == Drop(segment, d)
        p2 == d >= 1 /\ r4 # <<>> /\ LowerCh(r4[1]) = "x" /\ WsRestOk(Tail(r4))
        p3 == SizePattern(segment)
        p4 == d >= 1 /\ WsRestOk(r4)
        w1 == FirstToken(low)
        r6 == Drop(segment, Len(w1))
        s5 == LStrip(r6)
        w2 == FirstToken(Lower(s5))
        r5 == Drop(s5, Len(w2))
        p5 == /\ w1 \in {S_a, S_an} /\ r6 # <<>>
              /\ IsWordNumber(w2) /\ w2 \notin {S_a, S_an} /\ WsRestOk(r5)
        p6 == IsWordNumber(w1) /\ WsRestOk(r6)
    IN  IF segment = <<>> THEN None
        ELSE IF p1 THEN Some(LineItem(IntOf(SubSeq(low, 3 + qk + 1, 3 + qk + qd)), WsRest(qr), segment, None))
        ELSE IF p2 THEN Some(LineItem(IntOf(Take(segment, d)), WsRest(Tail(r4)), segment, None))
        ELSE IF p4 THEN Some(LineItem(IntOf(Take(segment, d)), WsRest(r4), segment, None))
        ELSE IF p3.ok
        THEN Some(LineItem(p3.qty, p3.size_num \o S_sp \o p3.size_unit \o S_sp \o p3.rest,
                           segment, Some(p3.size_num \o p3.size_unit)))
        ELSE IF p5 THEN Some(LineItem(WordNumber(w2), WsRest(r5), segment, None))
        ELSE IF p6 THEN Some(LineItem(WordNumber(w1), WsRest(r6), segment, None))
        ELSE Some(LineItem(1, segment, segment, None))

(***************************************************************************)
(* _parse_single_segment: None for an empty segment, else the line item of *)
(* the first pattern that matches.  Patterns 1, 2, 3, 5 and 6 ignore case: *)
(* they are tested on the lowercased segment, and the name is cut from the *)
(* segment as written.                                                     *)
(***************************************************************************)
_parse_single_segment(seg) ==
    LET segment == Strip(seg)
        low == Lower(segment)
        \* 1: ^qty[:\s]*(\d+)\s+(.+)$
        qk == SpanLen(Drop(low, 3), Spaces \cup {":"})
        qd == SpanLen(Drop(low, 3 + qk), Digits)
        qr == Drop(segment, 3 + qk + qd)
        p1 == StartsWith(low, S_qty) /\ qd >= 1 /\ WsRestOk(qr)
        \* 2: ^(\d+)x\s+(.+)$      4: ^(\d+)\s+(.+)$
        d  == SpanLen(segment, Digits)
        r4 == Drop(segment, d)
        p2 == d >= 1 /\ r4 # <<>> /\ LowerCh(r4[1]) = "x" /\ WsRestOk(Tail(r4))
        p3 == SizePattern(segment)
        p4 == d >= 1 /\ WsRestOk(r4)
        \* 5: ^(a|an)\s+(WORD)\s+(.+)$      6: ^(WORD)\s+(.+)$
        w1 == FirstToken(low)
        r6 == Drop(segment, Len(w1))
        s5 == LStrip(r6)
        w2 == FirstToken(Lower(s5))
        r5 == Drop(s5, Len(w2))
        p5 == /\ w1 \in {S_a, S_an} /\ r6 # <<>>
              /\ IsWordNumber(w2) /\ w2 \notin {S_a, S_an} /\ WsRestOk(r5)
        p6 == IsWordNumber(w1) /\ WsRestOk(r6)
    IN  IF segment = <<>> THEN None
        ELSE IF p1 THEN Some(LineItem(IntOf(SubSeq(low, 3 + qk + 1, 3 + qk + qd)), WsRest(qr), segment, None))
        ELSE IF p2 THEN Some(LineItem(IntOf(Take(segment, d)), WsRest(Tail(r4)), segment, None))
        ELSE IF p3.ok
        THEN Some(LineItem(p3.qty, p3.size_num \o S_sp \o p3.size_unit \o S_sp \o p3.rest,
                           segment, Some(p3.size_num \o p3.size_unit)))
        ELSE IF p4 THEN Some(LineItem(IntOf(Take(segment, d)), WsRest(r4), segment, None))
        ELSE IF p5 THEN Some(LineItem(WordNumber(w2), WsRest(r5), segment, None))
        ELSE IF p6 THEN Some(LineItem(WordNumber(w1), WsRest(r6), segment, None))
        ELSE Some(LineItem(1, segment, segment, None))

(***************************************************************************)
(* re.sub(prefix_pattern, '', s):                                          *)
(*   ^(?:i\s+)?(?:need|want|...|order)\s+                                  *)
(***************************************************************************)
StripPrefix(s) ==
    LET afterI == IF s # <<>> /\ s[1] = "i" /\ Len(s) >= 2 /\ IsSpace(s[2])
                  THEN LStrip(Tail(s)) ELSE s
        verbAt(t, k) == StartsWith(t, PrefixVerbs[k]) /\ Len(t) > Len(PrefixVerbs[k])
                        /\ IsSpace(t[Len(PrefixVerbs[k]) + 1])
        hit(t) == \E k \in 1..Len(PrefixVerbs) : verbAt(t, k)
        cut(t) == LET k == CHOOSE k \in 1..Len(PrefixVerbs) :
                               verbAt(t, k) /\ \A j \in 1..(k - 1) : ~verbAt(t, j)
                  IN  LStrip(Drop(t, Len(PrefixVerbs[k])))
    IN  IF hit(afterI) THEN cut(afterI)
        ELSE IF hit(s) THEN cut(s)
        ELSE s

(***************************************************************************)
(* re.split(r'\s*(?:,|;)\s*|\s+and\s+', s): the length of the separator    *)
(* that starts at position i, 0 when none does.                            *)
(***************************************************************************)
SeparatorAt(s, i) ==
    LET k  == SpanLen(Drop(s, i - 1), Spaces)
        j  == i + k
        k2 == SpanLen(Drop(s, j), Spaces)
        k3 == SpanLen(Drop(s, j + 2), Spaces)
    IN  IF j <= Len(s) /\ s[j] \in {",", ";"} THEN k + 1 + k2
        ELSE IF k >= 1 /\ At(s, j, S_and) /\ k3 >= 1 THEN k + 3 + k3
        ELSE 0

RECURSIVE SplitSegments(_, _, _)
SplitSegments(s, i, cur) ==
    IF i > Len(s) THEN <<cur>>
    ELSE LET n == SeparatorAt(s, i)
         IN  IF n > 0 THEN <<cur>> \o SplitSegments(s, i + n, <<>>)
             ELSE SplitSegments(s, i + 1, Append(cur, s[i]))

RECURSIVE ParseSegments(_)
ParseSegments(segments) ==
    IF segments = <<>> THEN <<>>
    ELSE LET s1   == Strip(segments[1])
             s2   == Strip(StripPrefix(s1))
             item == IF s1 = <<>> \/ s2 = <<>> THEN None ELSE _parse_single_segment(s2)
         IN  item \o ParseSegments(Tail(segments))

(***************************************************************************)
(* extract_line_items                                                      *)
(***************************************************************************)
extract_line_items(text) ==
    Let(StripPrefix(normalize_text(text)), LAMBDA text_normalized :
        Let(ParseSegments(Let(SplitSegments(text_normalized, 1, <<>>), LAMBDA segs : segs)),
            LAMBDA line_items :
                IF line_items # <<>> THEN line_items
                ELSE _parse_single_segment(text_normalized)))

(***************************************************************************)
(* Confidence scores are fractions <<num, den>>; 1.0 is <<1, 1>>.          *)
(***************************************************************************)
Frac(n, d) == IF n = d THEN <<1, 1>> ELSE <<n, d>>
FracGT(a, b) == a[1] * b[2] > b[1] * a[2]
FracGE(a, b) == a[1] * b[2] >= b[1] * a[2]
Zero == <<0, 1>>
One == <<1, 1>>
MinSimilarity == <<55, 100>>

(***************************************************************************)
(* similarity: SequenceMatcher(None, a, b).ratio() = 2*M / (|a| + |b|),    *)
(* M the total size of the matching blocks: the longest common block (the  *)
(* earliest in a, then the earliest in b), then the same to its left and   *)
(* to its right.                                                           *)
(***************************************************************************)
LongestMatch(a, b) ==
    LET common(k) == \E i \in 1..(Len(a) - k + 1) : \E j \in 1..(Len(b) - k + 1) :
                         SubSeq(a, i, i + k - 1) = SubSeq(b, j, j + k - 1)
        ks == {k \in 1..Min(Len(a), Len(b)) : common(k)}
        k  == CHOOSE x \in ks : \A y \in ks : y <= x
        i  == CHOOSE x \in 1..(Len(a) - k + 1) :
                  /\ Contains(b, SubSeq(a, x, x + k - 1))
                  /\ \A y \in 1..(x - 1) : ~Contains(b, SubSeq(a, y, y + k - 1))
        j  == CHOOSE x \in 1..(Len(b) - k + 1) :
                  /\ At(b, x, SubSeq(a, i, i + k - 1))
                  /\ \A y \in 1..(x - 1) : ~At(b, y, SubSeq(a, i, i + k - 1))
    IN  IF ks = {} THEN [size |-> 0] ELSE [size |-> k, i |-> i, j |-> j]

RECURSIVE MatchingChars(_, _)
MatchingChars(a, b) ==
    IF a = <<>> \/ b = <<>> THEN 0
    ELSE Let(LongestMatch(a, b), LAMBDA m :
             IF m.size = 0 THEN 0
             ELSE m.size
                  + Let(<<Take(a, m.i - 1), Take(b, m.j - 1)>>,
                        LAMBDA l : MatchingChars(l[1], l[2]))
                  + Let(<<Drop(a, m.i + m.size - 1), Drop(b, m.j + m.size - 1)>>,
                        LAMBDA r : MatchingChars(r[1], r[2])))

similarity(a, b) ==
    Let(<<Lower(a), Lower(b)>>, LAMBDA l :
        IF Len(l[1]) + Len(l[2]) = 0 THEN One
        ELSE Frac(2 * MatchingChars(l[1], l[2]), Len(l[1]) + Len(l[2])))

(***************************************************************************)
(* find_matching_sku                                                       *)
(***************************************************************************)
\* sorted(ITEM_SYNONYMS.keys(), key=len, reverse=True): the positions of the
\* synonyms by decreasing length, equal lengths in dict order
RECURSIVE SortedByLen(_)
SortedByLen(len) ==
    IF len = 0 THEN <<>>
    ELSE LET RECURSIVE pick(_)
             pick(i) == IF i > Len(ITEM_SYNONYMS) THEN <<>>
                        ELSE (IF Len(ITEM_SYNONYMS[i].text) = len THEN <<i>> ELSE <<>>)
                             \o pick(i + 1)
         IN  pick(1) \o SortedByLen(len - 1)

MaxSynonymLen ==
    CHOOSE n \in {Len(ITEM_SYNONYMS[i].text) : i \in 1..Len(ITEM_SYNONYMS)} :
        \A i \in 1..Len(ITEM_SYNONYMS) : Len(ITEM_SYNONYMS[i].text) <= n

sorted_synonyms == SortedByLen(MaxSynonymLen)

\* the fuzzy loop: the best score so far, replaced only by a strictly
\* better score that reaches min_similarity
RECURSIVE FuzzyBest(_, _, _, _)
FuzzyBest(item_normalized, min_similarity, i, best) ==
    IF i > Len(ITEM_SYNONYMS) THEN best
    ELSE Let(similarity(item_normalized, normalize_text(ITEM_SYNONYMS[i].text)), LAMBDA score :
             Let(IF FracGT(score, best.score) /\ FracGE(score, min_similarity)
                 THEN [sku |-> Some(ITEM_SYNONYMS[i].sku), score |-> score]
                 ELSE best,
                 LAMBDA better : FuzzyBest(item_normalized, min_similarity, i + 1, better)))

\* a substring confidence that is not capped at 1.0
SubstringConfidence_uncapped(synonym) == Frac(85 + 2 * Len(synonym), 100)

\* min(1.0, 0.85 + (len(synonym) / 50))
SubstringConfidence(synonym) == Frac(Min(100, 85 + 2 * Len(synonym)), 100)

\* a matcher that tries the fuzzy tier before the substring tier
find_matching_sku_fuzzyFirst(item_text, min_similarity) ==
  Let(normalize_text(item_text), LAMBDA item_normalized :
    LET exact(i)  == ITEM_SYNONYMS[i].text = item_normalized
        inside(n) == Contains(item_normalized, normalize_text(ITEM_SYNONYMS[sorted_synonyms[n]].text))
        N         == Len(ITEM_SYNONYMS)
    IN  IF \E i \in 1..N : exact(i)
        THEN [sku |-> Some(ITEM_SYNONYMS[CHOOSE i \in 1..N : exact(i)].sku), score |-> One]
        ELSE Let(FuzzyBest(item_normalized, min_similarity, 1, [sku |-> None, score |-> Zero]),
                 LAMBDA fuzzy :
                     IF ~IsNone(fuzzy.sku) \/ ~\E n \in 1..N : inside(n) THEN fuzzy
                     ELSE LET n == CHOOSE n \in 1..N : inside(n) /\ \A m \in 1..(n - 1) : ~inside(m)
                              synonym == ITEM_SYNONYMS[sorted_synonyms[n]]
                          IN  [sku |-> Some(synonym.sku),
                               score |-> SubstringConfidence(synonym.text)]))

find_matching_sku(item_text, min_similarity) ==
  Let(normalize_text(item_text), LAMBDA item_normalized :
    LET exact(i)  == ITEM_SYNONYMS[i].text = item_normalized
        inside(n) == Contains(item_normalized, normalize_text(ITEM_SYNONYMS[sorted_synonyms[n]].text))
        N         == Len(ITEM_SYNONYMS)
    IN  IF \E i \in 1..N : exact(i)
        THEN [sku |-> Some(ITEM_SYNONYMS[CHOOSE i \in 1..N : exact(i)].sku), score |-> One]
        ELSE IF \E n \in 1..N : inside(n)
        THEN LET n == CHOOSE n \in 1..N : inside(n) /\ \A m \in 1..(n - 1) : ~inside(m)
                 synonym == ITEM_SYNONYMS[sorted_synonyms[n]]
             IN  [sku |-> Some(synonym.sku), score |-> SubstringConfidence(synonym.text)]
        ELSE FuzzyBest(item_normalized, min_similarity, 1, [sku |-> None, score |-> Zero]))

(***************************************************************************)
(* parse_items_from_message: match every line item, then keep one entry    *)
(* per SKU (the first, replaced by a later one of strictly higher          *)
(* confidence) and every unmatched entry.                                  *)
(***************************************************************************)
MatchItem(line_item) ==
    Let(find_matching_sku(line_item.normalizedName, MinSimilarity), LAMBDA m :
        IF ~IsNone(m.sku)
        THEN [sku |-> m.sku, quantity |-> line_item.qty, confidence |-> m.score,
              source |-> line_item.rawText, matched |-> TRUE, unmatched_name |-> None]
        ELSE [sku |-> None, quantity |-> line_item.qty, confidence |-> Zero,
              source |-> line_item.rawText, matched |-> FALSE,
              unmatched_name |-> Some(line_item.normalizedName)])

\* a removal of duplicates that keeps the first entry of a SKU whatever the
\* confidence of the later ones
RECURSIVE Dedupe_keepFirst(_, _)
Dedupe_keepFirst(items, unique_items) ==
    IF items = <<>> THEN unique_items
    ELSE LET item == items[1]
         IN  Let(IF IsNone(item.sku) \/ ~\E k \in 1..Len(unique_items) : unique_items[k].sku = item.sku
                 THEN Append(unique_items, item)
                 ELSE unique_items,
                 LAMBDA kept : Dedupe_keepFirst(Tail(items), kept))

RECURSIVE Dedupe(_, _)
Dedupe(items, unique_items) ==
    IF items = <<>> THEN unique_items
    ELSE LET item == items[1]
             seen(k) == unique_items[k].sku = item.sku
             K == 1..Len(unique_items)
         IN  Let(IF IsNone(item.sku) \/ ~\E k \in K : seen(k)
                 THEN Append(unique_items, item)
                 ELSE LET k == CHOOSE k \in K : seen(k)
                      IN  IF FracGT(item.confidence, unique_items[k].confidence)
                          THEN [unique_items EXCEPT ![k] = item]
                          ELSE unique_items,
                 LAMBDA kept : Dedupe(Tail(items), kept))

parse_items_from_message(message) ==
    Let(extract_line_items(message), LAMBDA line_items :
        Let([i \in 1..Len(line_items) |-> Let(line_items[i], LAMBDA l : MatchItem(l))],
            LAMBDA items : Dedupe(items, <<>>)))

(***************************************************************************)
(* extract_duration_hint: the first of the five patterns found anywhere in *)
(* the lowercased message; None when none is.                              *)
(***************************************************************************)
S_day     == <<"d", "a", "y">>
S_friday  == <<"f", "r", "i", "d", "a", "y">>
S_sunday  == <<"s", "u", "n", "d", "a", "y">>
S_weekend == <<"w", "e", "e", "k", "e", "n", "d">>
S_week    == <<"w", "e", "e", "k">>
S_month   == <<"m", "o", "n", "t", "h">>
S_one     == <<"o", "n", "e">>
Connectives == << <<"t","h","r","o","u","g","h">>, <<"t","h","r","u">>, <<"t","o">>, <<"-">> >>

\* \b(\d+)\s*days?\b matched at position i
DaysAt(m, i) ==
    LET d == SpanLen(Drop(m, i - 1), Digits)
        k == SpanLen(Drop(m, i - 1 + d), Spaces)
        j == i + d + k
    IN  /\ d >= 1 /\ Boundary(m, i) /\ At(m, j, S_day)
        /\ \/ (j + 3 <= Len(m) /\ m[j + 3] = "s" /\ Boundary(m, j + 4))
           \/ Boundary(m, j + 3)

\* WORD \s+ REST matched at position i: the position after it, 0 when not
AfterWordWs(m, i, word) ==
    LET k == SpanLen(Drop(m, i - 1 + Len(word)), Spaces)
    IN  IF At(m, i, word) /\ k >= 1 THEN i + Len(word) + k ELSE 0

FridaySundayAt(m, i) ==
    LET j == AfterWordWs(m, i, S_friday)
    IN  j > 0 /\ \E c \in 1..Len(Connectives) :
                    LET e == AfterWordWs(m, j, Connectives[c])
                    IN  e > 0 /\ At(m, e, S_sunday)

WordAt(m, i, word) == Boundary(m, i) /\ At(m, i, word) /\ Boundary(m, i + Len(word))

WeekAt(m, i) ==
    /\ Boundary(m, i)
    /\ \E w \in {S_a, S_one} :
          LET j == AfterWordWs(m, i, w)
          IN  j > 0 /\ At(m, j, S_week) /\ Boundary(m, j + 4)

extract_duration_hint(message) ==
    LET m == Lower(message)
        P == 1..Len(m)
    IN  IF \E i \in P : DaysAt(m, i)
        THEN LET i == CHOOSE i \in P : DaysAt(m, i) /\ \A j \in 1..(i - 1) : ~DaysAt(m, j)
             IN  Some(IntOf(SubSeq(m, i, i + SpanLen(Drop(m, i - 1), Digits) - 1)))
        ELSE IF \E i \in P : FridaySundayAt(m, i) THEN Some(3)
        ELSE IF \E i \in P : WordAt(m, i, S_weekend) THEN Some(3)
        ELSE IF \E i \in P : WeekAt(m, i) THEN Some(7)
        ELSE IF \E i \in P : WordAt(m, i, S_month) THEN Some(30)
        ELSE None

(***************************************************************************)
(* Requests.  A payload is the body of POST /quote/run after pydantic      *)
(* validation (QuoteRunPayload): quantity >= 1 in explicit items,          *)
(* customer_tier one of A, B, C.                                           *)
(***************************************************************************)
Req == {1, 2}

M_chairs   == <<"c", "h", "a", "i", "r", "s">>
M_zero     == <<"0", " ", "c", "h", "a", "i", "r", "s">>
M_chiavari == <<"c", "h", "i", "a", "v", "a", "r", "i">>
M_unicorn  == <<"u", "n", "i", "c", "o", "r", "n">>
M_mixed    == <<"c", "h", "a", "i", "r", "s", " ", "a", "n", "d", " ", "u", "n", "i", "c", "o", "r", "n">>
M_tents    == <<"2", " ", "t", "e", "n", "t", "s", " ", "f", "o", "r", " ", "2", " ", "d", "a", "y", "s">>
M_blank    == <<" ">>
M_empty    == <<>>

MessageTexts == {M_chairs, M_zero, M_chiavari, M_unicorn, M_mixed, M_tents, M_blank, M_empty}

Item(sku, quantity) == [sku |-> sku, quantity |-> quantity]
I_tent  == <<Item(Some("TENT-20x20"), 1)>>
I_nosku == <<Item(None, 2)>>
I_two   == <<Item(Some("CHAIR-FOLD-WHT"), 3), Item(Some("TENT-20x20"), 1)>>
\* a SKU without a rate row, last and first of two
I_lastNoRate  == <<Item(Some("TENT-20x20"), 1), Item(Some("CHAIR-CHIAVARI"), 4)>>
I_firstNoRate == <<Item(Some("CHAIR-CHIAVARI"), 4), Item(Some("TENT-20x20"), 1)>>

\* every message with every item list, and the other fields varied over two
\* of the messages
Payloads ==
    [message       : {None} \cup {Some(m) : m \in MessageTexts},
     items         : {<<>>, I_tent, I_nosku, I_lastNoRate, I_firstNoRate},
     customer_tier : {"C"},
     language      : {None},
     start_date    : {None},
     end_date      : {Some("2024-04-14")}]
    \cup
    [message       : {Some(M_chairs), Some(M_tents)},
     items         : {<<>>},
     customer_tier : {"A", "C"},
     language      : {None, Some("es-ES"), Some("fr-FR")},
     start_date    : {None, Some("2024-04-12")},
     end_date      : {Some("2024-04-14")}]

ConcPayloads ==
    [message       : {Some(M_chairs), Some(M_zero)},
     items         : {<<>>, I_two},
     customer_tier : {"C"},
     language      : {None, Some("es-ES"), Some("fr-FR")},
     start_date    : {None},
     end_date      : {None}]

Ratings == {3, 4, 5}
SummaryOutcomes == {"ok", "OpenAIError", "Exception"}

(***************************************************************************)
(* dateutil's parser, on the date strings of the model: the day number of  *)
(* a date it accepts.                                                      *)
(***************************************************************************)
KnownDates == [s \in {"2024-04-12", "2024-04-14"} |-> IF s = "2024-04-12" THEN 12 ELSE 14]
DateParses(s) == s \in DOMAIN KnownDates

(***************************************************************************)
(* The parser on the messages of the model, evaluated once.                *)
(***************************************************************************)
StrippedTexts == {Strip(m) : m \in MessageTexts}
ParseTable == [m \in StrippedTexts |-> parse_items_from_message(m)]
HintTable == [m \in StrippedTexts |-> extract_duration_hint(m)]
ParsedItems(msg) ==
    IF msg \in StrippedTexts THEN ParseTable[msg] ELSE parse_items_from_message(msg)
DurationHint(msg) ==
    IF msg \in StrippedTexts THEN HintTable[msg] ELSE extract_duration_hint(msg)

(***************************************************************************)
(* _duration_days                                                          *)
(***************************************************************************)
\* _duration_days with the message consulted before the dates
_duration_days_messageFirst(start_s, end_s, message, fallback_days) ==
    LET given(d) == ~IsNone(d) /\ Val(d) # ""
        hint == DurationHint(message)
    IN  IF message # <<>> /\ ~IsNone(hint) /\ Val(hint) # 0
        THEN Val(hint)
        ELSE IF given(start_s) /\ given(end_s) /\ DateParses(Val(start_s)) /\ DateParses(Val(end_s))
        THEN Max(1, KnownDates[Val(end_s)] - KnownDates[Val(start_s)] + 1)
        ELSE fallback_days

_duration_days(start_s, end_s, message, fallback_days) ==
    LET given(d) == ~IsNone(d) /\ Val(d) # ""
        hint == DurationHint(message)
    IN  IF given(start_s) /\ given(end_s) /\ DateParses(Val(start_s)) /\ DateParses(Val(end_s))
        THEN Max(1, KnownDates[Val(end_s)] - KnownDates[Val(start_s)] + 1)
        ELSE IF message # <<>> /\ ~IsNone(hint) /\ Val(hint) # 0
        THEN Val(hint)
        ELSE fallback_days

FallbackDays == 3
DefaultItem == Item(Some("CHAIR-FOLD-WHT"), 100)

(***************************************************************************)
(* The item list handed to pricing: the explicit items, else the matched   *)
(* parsed items, else the default item.                                    *)
(***************************************************************************)
ResolveItems_parsedFirst(payload_items, parsed_items) ==
    IF parsed_items # <<>>
    THEN [i \in 1..Len(parsed_items) |-> Item(parsed_items[i].sku, parsed_items[i].quantity)]
    ELSE IF payload_items # <<>> THEN payload_items ELSE <<DefaultItem>>

ResolveItems(payload_items, parsed_items) ==
    LET items0 == payload_items
        items1 == IF items0 = <<>> /\ parsed_items # <<>>
                  THEN [i \in 1..Len(parsed_items) |->
                            Item(parsed_items[i].sku, parsed_items[i].quantity)]
                  ELSE items0
    IN  IF items1 = <<>> THEN <<DefaultItem>> ELSE items1

(***************************************************************************)
(* run_quote_loop up to its 'normalize' step: the locals it computes.      *)
(***************************************************************************)
Normalized(payload) ==
    LET tier == IF payload.customer_tier = "" THEN "C" ELSE payload.customer_tier
        language == IF IsNone(payload.language) \/ Val(payload.language) = ""
                    THEN "en-US" ELSE Val(payload.language)
        isMatched(i) == i.matched /\ ~IsNone(i.sku)
        isUnmatched(i) == ~i.matched \/ IsNone(i.sku)
    IN  Let(IF IsNone(payload.message) THEN <<>> ELSE Strip(Val(payload.message)), LAMBDA msg :
        Let(IF msg # <<>> THEN ParsedItems(msg) ELSE <<>>, LAMBDA all_parsed :
        Let(SelectSeq(all_parsed, isMatched), LAMBDA parsed_items :
            [msg |-> msg, tier |-> tier, language |-> language,
             parsed_items |-> parsed_items,
             unmatched_items |-> SelectSeq(all_parsed, isUnmatched),
             used_parser |-> parsed_items # <<>>,
             used_fallback |-> payload.items = <<>> /\ parsed_items = <<>>,
             items |-> ResolveItems(payload.items, parsed_items),
             days |-> _duration_days(payload.start_date, payload.end_date, msg, FallbackDays)])))

(***************************************************************************)
(* The summary stage and the notes of run_quote_loop.                      *)
(***************************************************************************)
LANGUAGE_LABELS == {"en-US", "es-ES", "ar-SA", "ja-JP"}

Note_noNames(key, lang, count, names) ==
    [key |-> key, lang |-> lang, count |-> count, names |-> <<>>]

Note(key, lang, count, names) == [key |-> key, lang |-> lang, count |-> count, names |-> names]

SummaryNote_english(outcome, language) ==
    Note(IF outcome = "ok" THEN "ai_summary"
         ELSE IF outcome = "OpenAIError" THEN "ai_fallback" ELSE "ai_error", "en-US", 0, <<>>)

\* the note the summary try/except appends, by the outcome of the call
SummaryNote(outcome, language) ==
    LET lang_key == IF language \in LANGUAGE_LABELS THEN language ELSE "en-US"
    IN  IF outcome = "ok" THEN Note("ai_summary", lang_key, 0, <<>>)
        ELSE IF outcome = "OpenAIError" THEN Note("ai_fallback", lang_key, 0, <<>>)
        ELSE Note("ai_error", lang_key, 0, <<>>)

BuildNotes(payload, n, outcome) ==
    LET lang_key == IF n.language \in LANGUAGE_LABELS THEN n.language ELSE "en-US"
        given(d) == ~IsNone(d) /\ Val(d) # ""
        hint == IF n.msg # <<>> THEN DurationHint(n.msg) ELSE None
    IN  <<SummaryNote(outcome, n.language)>>
        \o (IF n.used_parser THEN <<Note("parsing_note", lang_key, Len(n.items), <<>>)>> ELSE <<>>)
        \o (IF n.used_fallback THEN <<Note("fallback_note", lang_key, 0, <<>>)>> ELSE <<>>)
        \o (IF n.unmatched_items # <<>>
            THEN <<Note("unmatched_note", lang_key, 0,
                        [i \in 1..Len(n.unmatched_items) |-> Val(n.unmatched_items[i].unmatched_name)])>>
            ELSE <<>>)
        \o (IF given(payload.start_date) /\ given(payload.end_date)
            THEN <<Note("date_note", lang_key, n.days, <<>>)>>
            ELSE IF ~IsNone(hint) /\ Val(hint) # 0
            THEN <<Note("duration_note", lang_key, n.days, <<>>)>>
            ELSE <<>>)

\* the quote run_quote_loop returns: the priced quote with its notes
WithNotes(quote, notes) ==
    [items |-> quote.items, subtotal |-> quote.subtotal,
     subtotal_before_discount |-> quote.subtotal_before_discount,
     discount_pct |-> quote.discount_pct, discount_amount |-> quote.discount_amount,
     fees |-> quote.fees, tax |-> quote.tax, total |-> quote.total, days |-> quote.days,
     notes |-> notes]

SummaryStage_failureZeroesTotal(quote, payload, n, outcome) ==
    IF outcome = "ok" THEN WithNotes(quote, BuildNotes(payload, n, outcome))
    ELSE [WithNotes(quote, BuildNotes(payload, n, outcome)) EXCEPT !.total = 0]

SummaryStage(quote, payload, n, outcome) == WithNotes(quote, BuildNotes(payload, n, outcome))

(***************************************************************************)
(* _adapt_quote_for_ui                                                     *)
(***************************************************************************)
Get(rec, key, default) == IF key \in DOMAIN rec THEN rec[key] ELSE default

AdaptItem(li, days) ==
    LET unit_price  == Get(li, "unitPrice", 0)
        given_rate  == Get(li, "dailyRate", None)
        no_rate     == IsNone(given_rate) \/ Val(given_rate) = 0
        daily_rate  == IF no_rate /\ unit_price # 0 /\ days > 0
                       THEN Some(unit_price \div days) ELSE given_rate
    IN  [sku |-> li.sku, name |-> li.name, qty |-> Get(li, "qty", 0), days |-> days,
         dailyRate |-> daily_rate, unitPrice |-> unit_price, subtotal |-> Get(li, "subtotal", 0)]

_adapt_quote_for_ui(raw) ==
    LET line_items == Get(raw, "items", <<>>)
        days == Get(raw, "days", 1)
    IN  [currency |-> "$",
         items |-> [i \in 1..Len(line_items) |-> AdaptItem(line_items[i], days)],
         subtotal |-> Get(raw, "subtotal", 0),
         tax |-> Get(raw, "tax", 0),
         fees |-> Get(raw, "fees", <<>>),
         total |-> Get(raw, "total", 0),
         notes |-> Get(raw, "notes", <<>>),
         resolved_location |-> None]

(***************************************************************************)
(* The audit log: start_run, add_step, finish_run.                         *)
(* A step row keeps the columns the routes read back (kind, output_json)   *)
(* and, as history, the request that appended it (`by`, 0 for feedback).   *)
(***************************************************************************)
start_run(rs) == Append(rs, [status |-> "running", cost_usd |-> 0])

add_step(st, run_id, kind, output_json, by) ==
    [st EXCEPT ![run_id] = Append(@, [run_id |-> run_id, kind |-> kind,
                                      output |-> output_json, by |-> by])]

finish_run(rs, run_id, cost) ==
    [i \in 1..Len(rs) |-> IF i = run_id THEN [status |-> "finished", cost_usd |-> cost] ELSE rs[i]]

(***************************************************************************)
(* Responses, as the exception handlers of the app shape them.             *)
(***************************************************************************)
Ok(run_id, quote) ==
    [status |-> 200, error |-> "", message |-> "", run_id |-> Some(run_id), quote |-> Some(quote)]
Err(status, code, message, run_id) ==
    [status |-> status, error |-> code, message |-> message, run_id |-> run_id, quote |-> None]

ValidationError == Err(400, "VALIDATION_ERROR", "Either 'message' or 'items' must be provided", None)
DatabaseError(message) == Err(500, "DATABASE_ERROR", message, None)
ResourceNotFoundError == Err(404, "RESOURCE_NOT_FOUND", "Run not found", None)
QuoteGenerationError(message, run_id) == Err(400, "QUOTE_GENERATION_ERROR", message, Some(run_id))
\* an exception no handler of the route catches: general_exception_handler
InternalError == Err(500, "INTERNAL_ERROR", "An unexpected error occurred", None)

\* the QuoteGenerationError run_quote raises for an exception of run_quote_loop
LoopError(exc, run_id) ==
    IF exc.type = "ValueError"
    THEN QuoteGenerationError("Invalid quote data", run_id)
    ELSE QuoteGenerationError("Failed to generate quote", run_id)

Exc(type, msg) == [type |-> type, msg |-> msg]

Idle ==
    [pc |-> "idle", payload |-> None, run_id |-> 0, n |-> None, quote |-> None,
     exc |-> None, summary |-> "", out |-> None, resp |-> None]

Init ==
    /\ runs = <<>>
    /\ steps = <<>>
    /\ req = [r \in Req |-> Idle]
    /\ fb = None
    /\ nfb = 0
    /\ call = None

(***************************************************************************)
(* run_quote, one action per stage.  `ok` is whether the store round trip  *)
(* of the stage succeeds.                                                  *)
(***************************************************************************)
Rejected_emptyMessageAccepted(p) == IsNone(p.message) /\ p.items = <<>>

\* the validation at the top of run_quote
Rejected(p) ==
    /\ IsNone(p.message) \/ Val(p.message) = <<>>
    /\ p.items = <<>>

Submit(r, p) ==
    /\ req[r].pc = "idle"
    /\ req' = [req EXCEPT ![r] =
                 IF Rejected(p)
                 THEN [@ EXCEPT !.pc = "done", !.payload = Some(p), !.resp = Some(ValidationError)]
                 ELSE [@ EXCEPT !.pc = "start_run", !.payload = Some(p)]]
    /\ UNCHANGED <<runs, steps, fb, nfb, call>>

NewRunId_first(rs) == 1

\* the id start_run returns for the row it inserted
NewRunId(rs) == Len(rs)

StartRun(r, ok) ==
    /\ req[r].pc = "start_run"
    /\ IF ok
       THEN /\ runs' = start_run(runs)
            /\ steps' = Append(steps, <<>>)
            /\ req' = [req EXCEPT ![r].pc = "normalize", ![r].run_id = NewRunId(runs')]
       ELSE /\ req' = [req EXCEPT ![r].pc = "done",
                           ![r].resp = Some(DatabaseError("Failed to create quote run in database"))]
            /\ UNCHANGED <<runs, steps>>
    /\ UNCHANGED <<fb, nfb, call>>

\* an exception leaves run_quote_loop
Raise(r, exc) == req' = [req EXCEPT ![r].pc = "error", ![r].exc = Some(exc)]

NormalizeStage(r, ok) ==
    /\ req[r].pc = "normalize"
    /\ \E n \in {Normalized(Val(req[r].payload))} :
           IF ok
           THEN /\ steps' = add_step(steps, req[r].run_id, "normalize",
                                     [items |-> n.items, days |-> n.days, tier |-> n.tier], r)
                /\ req' = [req EXCEPT ![r].pc = "policies", ![r].n = Some(n)]
           ELSE /\ Raise(r, Exc("SQLAlchemyError", "add_step"))
                /\ UNCHANGED steps
    /\ UNCHANGED <<runs, fb, nfb, call>>

\* _fetch_policies and the 'policies' step
PoliciesStage(r, fetched, ok) ==
    /\ req[r].pc = "policies"
    /\ IF ~fetched
       THEN Raise(r, Exc("DatabaseError", "Failed to fetch pricing policies")) /\ UNCHANGED steps
       ELSE IF ~ok
       THEN Raise(r, Exc("SQLAlchemyError", "add_step")) /\ UNCHANGED steps
       ELSE /\ steps' = add_step(steps, req[r].run_id, "policies", Policies, r)
            /\ req' = [req EXCEPT ![r].pc = "pricing"]
    /\ UNCHANGED <<runs, fb, nfb, call>>

\* _compute and the 'pricing' step
PricingStage(r, fault, ok) ==
    /\ req[r].pc = "pricing"
    /\ fault \in ComputeFaults(Val(req[r].n).items)
    /\ \E priced \in {_compute(Val(req[r].n).items, Val(req[r].n).days, Policies,
                                 Val(req[r].n).tier, fault)} :
           IF ~priced.ok
           THEN /\ Raise(r, Exc(priced.exc, IF priced.exc = "ValueError"
                                            THEN "rate not found" ELSE "Failed to fetch rate"))
                /\ UNCHANGED steps
           ELSE IF ~ok
           THEN Raise(r, Exc("SQLAlchemyError", "add_step")) /\ UNCHANGED steps
           ELSE /\ steps' = add_step(steps, req[r].run_id, "pricing", priced.quote, r)
                /\ req' = [req EXCEPT ![r].pc = "guardrails", ![r].quote = Some(priced.quote)]
    /\ UNCHANGED <<runs, fb, nfb, call>>

\* the guardrail of run_quote_loop
GuardrailViolated(quote) == quote.subtotal <= 0

\* a guardrail stage that records its step before it tests the subtotal
GuardrailStage_recordsThenTests(r, ok) ==
    /\ req[r].pc = "guardrails"
    /\ LET quote == Val(req[r].quote)
       IN  IF ~ok
           THEN Raise(r, Exc("SQLAlchemyError", "add_step")) /\ UNCHANGED steps
           ELSE /\ steps' = add_step(steps, req[r].run_id, "policy_guardrails", quote, r)
                /\ IF GuardrailViolated(quote)
                   THEN Raise(r, Exc("ValueError", "subtotal must be positive"))
                   ELSE req' = [req EXCEPT ![r].pc = "summary"]
    /\ UNCHANGED <<runs, fb, nfb, call>>

GuardrailStage(r, ok) ==
    /\ req[r].pc = "guardrails"
    /\ LET quote == Val(req[r].quote)
       IN  IF GuardrailViolated(quote)
           THEN Raise(r, Exc("ValueError", "subtotal must be positive")) /\ UNCHANGED steps
           ELSE IF ~ok
           THEN Raise(r, Exc("SQLAlchemyError", "add_step")) /\ UNCHANGED steps
           ELSE /\ steps' = add_step(steps, req[r].run_id, "policy_guardrails", quote, r)
                /\ req' = [req EXCEPT ![r].pc = "summary"]
    /\ UNCHANGED <<runs, fb, nfb, call>>

\* the summary call, the notes, and the return of run_quote_loop
SummaryAction(r, outcome) ==
    /\ req[r].pc = "summary"
    /\ req' = [req EXCEPT ![r].pc = "finish", ![r].summary = outcome,
                          ![r].out = Some(SummaryStage(Val(req[r].quote), Val(req[r].payload),
                                                       Val(req[r].n), outcome))]
    /\ UNCHANGED <<runs, steps, fb, nfb, call>>

\* the last try block of run_quote: adapt, finish_run, return
Finish(r, ok) ==
    /\ req[r].pc = "finish"
    /\ \E ui_quote \in {_adapt_quote_for_ui(Val(req[r].out))} :
           IF ok
           THEN /\ runs' = finish_run(runs, req[r].run_id, 0)
                /\ req' = [req EXCEPT ![r].pc = "done",
                                      ![r].resp = Some(Ok(req[r].run_id, ui_quote))]
           ELSE /\ req' = [req EXCEPT ![r].pc = "done",
                               ![r].resp = Some(QuoteGenerationError(
                                   "Failed to format quote response", req[r].run_id))]
                /\ UNCHANGED runs
    /\ UNCHANGED <<steps, fb, nfb, call>>

RecordError_unrecorded(r, ok) ==
    /\ req[r].pc = "error"
    /\ req' = [req EXCEPT ![r].pc = "error_finish"]
    /\ UNCHANGED <<runs, steps, fb, nfb, call>>

\* the except blocks of run_quote: the 'error' step ...
RecordError(r, ok) ==
    /\ req[r].pc = "error"
    /\ IF ok
       THEN /\ steps' = add_step(steps, req[r].run_id, "error",
                                 [error |-> Val(req[r].exc).msg], r)
            /\ req' = [req EXCEPT ![r].pc = "error_finish"]
       ELSE /\ req' = [req EXCEPT ![r].pc = "done", ![r].resp = Some(InternalError)]
            /\ UNCHANGED steps
    /\ UNCHANGED <<runs, fb, nfb, call>>

\* ... then finish_run and the QuoteGenerationError
ErrorFinish(r, ok) ==
    /\ req[r].pc = "error_finish"
    /\ IF ok
       THEN /\ runs' = finish_run(runs, req[r].run_id, 0)
            /\ req' = [req EXCEPT ![r].pc = "done",
                                  ![r].resp = Some(LoopError(Val(req[r].exc), req[r].run_id))]
       ELSE /\ req' = [req EXCEPT ![r].pc = "done", ![r].resp = Some(InternalError)]
            /\ UNCHANGED runs
    /\ UNCHANGED <<steps, fb, nfb, call>>

(***************************************************************************)
(* POST /quote/feedback, the whole handler.  `fault` names the store round *)
(* trip that fails, if any.                                                *)
(***************************************************************************)
FeedbackKinds == {"policy_guardrails", "feedback_apply"}
FeedbackFaults == {"none", "select", "add_step", "finish_run"}

\* a SELECT that also returns the 'pricing' step
LatestQuoteStep_withPricing(st, rid) ==
    IF rid \notin 1..Len(st) THEN None
    ELSE LET log == st[rid]
             K == {k \in 1..Len(log) : log[k].kind \in FeedbackKinds \cup {"pricing"}}
         IN  IF K = {} THEN None
             ELSE Some(log[CHOOSE k \in K : \A j \in K : j <= k])

\* the row the SELECT returns: the latest step of the run of these kinds
LatestQuoteStep(st, rid) ==
    IF rid \notin 1..Len(st) THEN None
    ELSE LET log == st[rid]
             K == {k \in 1..Len(log) : log[k].kind \in FeedbackKinds}
         IN  IF K = {} THEN None
             ELSE Some(log[CHOOSE k \in K : \A j \in K : j <= k])

GoodwillRate == 10

\* round(subtotal * 0.10, 2)
RoundGoodwill(subtotal) ==
    RoundDiv(subtotal * GoodwillRate, 100,
             CASE subtotal \in GoodwillHalfCentUp -> TRUE
               [] subtotal \in GoodwillHalfCentDown -> FALSE
               [] OTHER -> ((subtotal * GoodwillRate) \div 100) % 2 = 1)

\* a goodwill rule that also grants the discount for a rating of 4
ApplyFeedback_ratingFour(quote, rating) ==
    LET subtotal == Get(quote, "subtotal", 0)
        total    == Get(quote, "total", 0)
        fees     == Get(quote, "fees", <<>>)
        discount == RoundGoodwill(subtotal)
    IN  IF rating <= 4 /\ subtotal > 0
        THEN [quote EXCEPT !.fees = Append(fees, [rule |-> "goodwill_discount", amount |-> -discount]),
                           !.total = total - discount]
        ELSE quote

\* a goodwill rule that appends the fee and leaves the total as it was
ApplyFeedback_totalKept(quote, rating) ==
    LET subtotal == Get(quote, "subtotal", 0)
        fees     == Get(quote, "fees", <<>>)
        discount == RoundGoodwill(subtotal)
    IN  IF rating <= 3 /\ subtotal > 0
        THEN [quote EXCEPT !.fees = Append(fees, [rule |-> "goodwill_discount", amount |-> -discount])]
        ELSE quote

\* the quote after the goodwill rule of the handler
ApplyFeedback(quote, rating) ==
    LET subtotal == Get(quote, "subtotal", 0)
        total    == Get(quote, "total", 0)
        fees     == Get(quote, "fees", <<>>)
        discount == RoundGoodwill(subtotal)
    IN  IF rating <= 3 /\ subtotal > 0
        THEN [quote EXCEPT !.fees = Append(fees, [rule |-> "goodwill_discount", amount |-> -discount]),
                           !.total = total - discount]
        ELSE quote

\* the run ids a client can name: those a response has told it, and one no
\* run has
Answered(rid) == \E r \in Req : req[r].run_id = rid /\ req[r].pc = "done"
KnownRunIds == {rid \in 1..Len(runs) : Answered(rid)} \cup {Len(runs) + 1}

Feedback(rid, rating, fault) ==
    /\ nfb < MaxFeedback
    /\ rid \in KnownRunIds
    /\ nfb' = nfb + 1
    /\ UNCHANGED <<req, call>>
    /\ \E step \in {LatestQuoteStep(steps, rid)} :
       LET failed == Some([run_id |-> rid, rating |-> rating,
                           resp |-> DatabaseError("Failed to process feedback")])
       IN  IF fault = "select"
           THEN fb' = failed /\ UNCHANGED <<runs, steps>>
           ELSE IF IsNone(step)
           THEN /\ fb' = Some([run_id |-> rid, rating |-> rating, resp |-> ResourceNotFoundError])
                /\ UNCHANGED <<runs, steps>>
           ELSE \E ui_quote \in {_adapt_quote_for_ui(ApplyFeedback(Val(step).output, rating))} :
                    IF fault = "add_step"
                    THEN fb' = failed /\ UNCHANGED <<runs, steps>>
                    ELSE /\ steps' = add_step(steps, rid, "feedback_apply", ui_quote, 0)
                         /\ IF fault = "finish_run"
                            THEN fb' = failed /\ UNCHANGED runs
                            ELSE /\ runs' = finish_run(runs, rid, 0)
                                 /\ fb' = Some([run_id |-> rid, rating |-> rating,
                                                resp |-> Ok(rid, ui_quote)])

(***************************************************************************)
(* Specifications.  Next(R, P, S): the requests of R, payloads drawn from  *)
(* P, store round trips succeeding as S allows.                            *)
(***************************************************************************)
\* the faults a store answering as S allows can show
Faults(All, none, S) == IF FALSE \in S THEN All ELSE {none}
MaxItems == 2
AllComputeFaults == {NoFault} \cup [at : 1..MaxItems, what : {"rate", "name"}]

RunQuote(R, P, S) ==
    \/ \E r \in R, p \in P : Submit(r, p)
    \/ \E r \in R, ok \in S : StartRun(r, ok)
    \/ \E r \in R, ok \in S : NormalizeStage(r, ok)
    \/ \E r \in R, fetched \in S, ok \in S : PoliciesStage(r, fetched, ok)
    \/ \E r \in R, ok \in S, fault \in Faults(AllComputeFaults, NoFault, S) :
          PricingStage(r, fault, ok)
    \/ \E r \in R, ok \in S : GuardrailStage(r, ok)
    \/ \E r \in R, outcome \in SummaryOutcomes : SummaryAction(r, outcome)
    \/ \E r \in R, ok \in S : Finish(r, ok)
    \/ \E r \in R, ok \in S : RecordError(r, ok)
    \/ \E r \in R, ok \in S : ErrorFinish(r, ok)

Next(R, P, S) ==
    \/ RunQuote(R, P, S)
    \/ \E rid \in KnownRunIds, rating \in Ratings, fault \in Faults(FeedbackFaults, "none", S) :
          Feedback(rid, rating, fault)

\* one client, every payload, a store that may fail at any round trip
Spec == Init /\ [][Next({1}, Payloads, BOOLEAN)]_vars

\* two concurrent clients over a store that answers
SpecConc == Init /\ [][RunQuote(Req, ConcPayloads, {TRUE})]_vars

\* the steps of run_quote after the validation: a request that has been
\* accepted is served to its end by the worker that took it
Handle(R, S) ==
    \/ \E r \in R, ok \in S : StartRun(r, ok)
    \/ \E r \in R, ok \in S : NormalizeStage(r, ok)
    \/ \E r \in R, fetched \in S, ok \in S : PoliciesStage(r, fetched, ok)
    \/ \E r \in R, ok \in S, fault \in Faults(AllComputeFaults, NoFault, S) :
          PricingStage(r, fault, ok)
    \/ \E r \in R, ok \in S : GuardrailStage(r, ok)
    \/ \E r \in R, outcome \in SummaryOutcomes : SummaryAction(r, outcome)
    \/ \E r \in R, ok \in S : Finish(r, ok)
    \/ \E r \in R, ok \in S : RecordError(r, ok)
    \/ \E r \in R, ok \in S : ErrorFinish(r, ok)

\* one client and a store that may fail, every accepted request served to
\* its end; nothing obliges a client to submit or to send feedback
SpecLive == Spec /\ WF_vars(Handle({1}, BOOLEAN))

(***************************************************************************)
(* The location resolver (core/location_resolver.py).  Strings are         *)
(* sequences of characters; an absent argument is None.                    *)
(***************************************************************************)
\* KNOWN_LOCATIONS, in the order of the dictionary
KNOWN_LOCATIONS == <<
    [canonical |-> <<"D", "a", "l", "l", "a", "s", ",", " ", "T", "X">>,
     aliases |-> << <<"d", "a", "l", "l", "a", "s">>,
                   <<"d", "a", "l", "l", "a", "s", " ", "t", "x">>,
                   <<"d", "a", "l", "l", "a", "s", ",", " ", "t", "x">>,
                   <<"d", "a", "l", "l", "a", "s", " ", "m", "e", "t", "r", "o">>,
                   <<"d", "a", "l", "l", "a", "s", " ", "a", "r", "e", "a">>,
                   <<"d", "a", "l", "l", "a", "s", " ", "m", "e", "t", "r", "o", " ", "a", "r", "e", "a">>>>],
    [canonical |-> <<"F", "o", "r", "t", " ", "W", "o", "r", "t", "h", ",", " ", "T", "X">>,
     aliases |-> << <<"f", "o", "r", "t", " ", "w", "o", "r", "t", "h">>,
                   <<"f", "o", "r", "t", " ", "w", "o", "r", "t", "h", " ", "t", "x">>,
                   <<"f", "o", "r", "t", " ", "w", "o", "r", "t", "h", ",", " ", "t", "x">>,
                   <<"f", "t", " ", "w", "o", "r", "t", "h">>,
                   <<"f", "t", ".", " ", "w", "o", "r", "t", "h">>,
                   <<"f", "o", "r", "t", "w", "o", "r", "t", "h">>>>],
    [canonical |-> <<"P", "l", "a", "n", "o", ",", " ", "T", "X">>,
     aliases |-> << <<"p", "l", "a", "n", "o">>,
                   <<"p", "l", "a", "n", "o", " ", "t", "x">>,
                   <<"p", "l", "a", "n", "o", ",", " ", "t", "x">>>>],
    [canonical |-> <<"A", "r", "l", "i", "n", "g", "t", "o", "n", ",", " ", "T", "X">>,
     aliases |-> << <<"a", "r", "l", "i", "n", "g", "t", "o", "n">>,
                   <<"a", "r", "l", "i", "n", "g", "t", "o", "n", " ", "t", "x">>,
                   <<"a", "r", "l", "i", "n", "g", "t", "o", "n", ",", " ", "t", "x">>>>],
    [canonical |-> <<"S", "o", "u", "t", "h", "l", "a", "k", "e", ",", " ", "T", "X">>,
     aliases |-> << <<"s", "o", "u", "t", "h", "l", "a", "k", "e">>,
                   <<"s", "o", "u", "t", "h", "l", "a", "k", "e", " ", "t", "x">>,
                   <<"s", "o", "u", "t", "h", "l", "a", "k", "e", ",", " ", "t", "x">>>>] >>

\* the city alternatives of LOCATION_PATTERNS[0] and [1]; the words of a city are
\* separated by \s*
KnownCityWords == << << <<"d", "a", "l", "l", "a", "s">> >>, << <<"f", "o", "r", "t">>, <<"w", "o", "r", "t", "h">> >>, << <<"p", "l", "a", "n", "o">> >>, << <<"a", "r", "l", "i", "n", "g", "t", "o", "n">> >>, << <<"s", "o", "u", "t", "h", "l", "a", "k", "e">> >> >>
OtherCityWords == << << <<"a", "u", "s", "t", "i", "n">> >>, << <<"h", "o", "u", "s", "t", "o", "n">> >>, << <<"s", "a", "n">>, <<"a", "n", "t", "o", "n", "i", "o">> >> >>
\* the keywords of LOCATION_PATTERNS[2..4]
PlaceKeywords == << <<"i", "n">>, <<"a", "t">>, <<"n", "e", "a", "r">> >>
S_tx == <<"t", "x">>
S_texas == <<"t", "e", "x", "a", "s">>
common_words == {<<"t", "x">>, <<"t", "e", "x", "a", "s">>, <<"m", "e", "t", "r", "o">>, <<"a", "r", "e", "a">>, <<"d", "o", "w", "n", "t", "o", "w", "n">>, <<"n", "o", "r", "t", "h">>, <<"s", "o", "u", "t", "h">>, <<"e", "a", "s", "t">>, <<"w", "e", "s", "t">>}
S_mismatch == <<"L", "o", "c", "a", "t", "i", "o", "n", " ", "m", "i", "s", "m", "a", "t", "c", "h", ":", " ", "c", "u", "s", "t", "o", "m", "e", "r", " ", "w", "r", "o", "t", "e", " ", "'">>
S_butSelected == <<"'", " ", "b", "u", "t", " ", "s", "e", "l", "e", "c", "t", "e", "d", " ", "'">>
S_usingSelected == <<"'", ".", " ", "U", "s", "i", "n", "g", " ", "s", "e", "l", "e", "c", "t", "e", "d", " ", "l", "o", "c", "a", "t", "i", "o", "n", " ", "f", "o", "r", " ", "p", "r", "i", "c", "i", "n", "g", ".">>
S_zip == <<"Z", "I", "P", " ">>
S_unknown == <<"U", "n", "k", "n", "o", "w", "n", " ", "/", " ", "N", "o", "t", " ", "p", "r", "o", "v", "i", "d", "e", "d">>

\* a truthiness under which only None is absent
Truthy_emptyIsPresent(s) == ~IsNone(s)

\* Python truthiness of an Optional[str]: None and "" are both absent
Truthy(s) == ~IsNone(s) /\ Val(s) # <<>>

\* str.upper() of one character, and str.title(): a letter is upper-cased
\* when the character before it is not a letter, lower-cased otherwise
UpperCh(c) ==
    IF \E i \in 1..26 : LowerAlpha[i] = c
    THEN UpperAlpha[CHOOSE i \in 1..26 : LowerAlpha[i] = c]
    ELSE c
Title(s) ==
    [i \in 1..Len(s) |->
        IF i = 1 \/ s[i - 1] \notin Letters THEN UpperCh(s[i]) ELSE LowerCh(s[i])]

\* the canonical name whose aliases (or own lower-cased name) hold
\* location_lower, None when there is none: the first in dictionary order
_get_canonical_location(location_lower) ==
    LET hit(k) == \/ \E a \in 1..Len(KNOWN_LOCATIONS[k].aliases) :
                        KNOWN_LOCATIONS[k].aliases[a] = location_lower
                  \/ Lower(KNOWN_LOCATIONS[k].canonical) = location_lower
        ks == {k \in 1..Len(KNOWN_LOCATIONS) : hit(k)}
    IN  IF ks = {} THEN None
        ELSE Some(KNOWN_LOCATIONS[CHOOSE k \in ks : \A j \in ks : k <= j].canonical)

_normalize_location(location) ==
    IF location = <<>> THEN location
    ELSE Let(_get_canonical_location(Strip(Lower(location))), LAMBDA c :
             IF IsNone(c) THEN Title(location) ELSE Val(c))

\* `alias in text_lower` over KNOWN_LOCATIONS: the first canonical name one
\* of whose aliases occurs anywhere in the text
AliasIn(text_lower) ==
    LET ks == {k \in 1..Len(KNOWN_LOCATIONS) :
                  \E a \in 1..Len(KNOWN_LOCATIONS[k].aliases) :
                      Contains(text_lower, KNOWN_LOCATIONS[k].aliases[a])}
    IN  IF ks = {} THEN None
        ELSE Some(KNOWN_LOCATIONS[CHOOSE k \in ks : \A j \in ks : k <= j].canonical)

\* the words of a city, separated by \s*, matched at position i of the
\* lower-cased text: the position after the match, 0 when there is none
RECURSIVE CityEnd(_, _, _)
CityEnd(tl, i, words) ==
    IF words = <<>> THEN i
    ELSE IF ~At(tl, i, Head(words)) THEN 0
    ELSE Let(i + Len(Head(words)), LAMBDA e :
             IF Len(words) = 1 THEN e
             ELSE CityEnd(tl, e + SpanLen(Drop(tl, e - 1), Spaces), Tail(words)))

\* (?:\s*,?\s*(?:tx|texas))?\b after a city that ends before position e
StateSuffix(tl, e) ==
    \/ Boundary(tl, e)
    \/ \E q \in e..Len(tl) :
          /\ \A k \in e..(q - 1) : tl[k] \in Spaces \cup {","}
          /\ Cardinality({k \in e..(q - 1) : tl[k] = ","}) <= 1
          /\ \/ At(tl, q, S_tx) /\ Boundary(tl, q + 2)
             \/ At(tl, q, S_texas) /\ Boundary(tl, q + 5)

\* \b(city|city|...)(?:\s*,?\s*(?:tx|texas))?\b at position i: group 1, or None
CityAt(text, i, cities) ==
    Let(Lower(text), LAMBDA tl :
        LET ok(c) == /\ Boundary(tl, i)
                     /\ CityEnd(tl, i, cities[c]) > 0
                     /\ StateSuffix(tl, CityEnd(tl, i, cities[c]))
            cs == {c \in 1..Len(cities) : ok(c)}
        IN  IF cs = {} THEN None
            ELSE Some(SubSeq(text, i, CityEnd(tl, i, cities[CHOOSE c \in cs : \A d \in cs : c <= d]) - 1)))

\* ,\s*[A-Z]{2} at position e followed by \b: the position after it, else 0
StateCodeEnd(text, e) ==
    LET s == e + 1 + SpanLen(Drop(text, e), Spaces)
    IN  IF /\ e <= Len(text) /\ text[e] = ","
           /\ s + 1 <= Len(text) /\ text[s] \in Letters /\ text[s + 1] \in Letters
           /\ Boundary(text, s + 2)
        THEN s + 2 ELSE 0

\* the end of a place name whose words stop before position e: with the state
\* code when one follows, else at e when a word boundary is there, else 0
PlaceEnd(text, e) ==
    IF StateCodeEnd(text, e) > 0 THEN StateCodeEnd(text, e)
    ELSE IF Boundary(text, e) THEN e ELSE 0

\* \bKW\s+([A-Z][a-z]+(?:\s+[A-Z][a-z]+)?(?:,\s*[A-Z]{2})?)\b at position i,
\* case ignored: group 1, or None.  The quantifiers are greedy; a shorter run
\* of letters is followed by a letter, where nothing of the rest can match.
PlaceAt(text, i, kw) ==
    LET p0 == i + Len(kw)
        a  == p0 + SpanLen(Drop(text, p0 - 1), Spaces)
        e1 == a + SpanLen(Drop(text, a - 1), Letters)
        b  == e1 + SpanLen(Drop(text, e1 - 1), Spaces)
        e2 == b + SpanLen(Drop(text, b - 1), Letters)
        two == b > e1 /\ e2 - b >= 2 /\ PlaceEnd(text, e2) > 0
        end == IF two THEN PlaceEnd(text, e2) ELSE PlaceEnd(text, e1)
    IN  IF /\ Boundary(text, i) /\ At(Lower(text), i, kw)
           /\ a > p0 /\ e1 - a >= 2 /\ end > 0
        THEN Some(SubSeq(text, a, end - 1)) ELSE None

\* re.search of the city pattern: group 1 of the leftmost match
CitySearch(text, cities) ==
    LET ps == {i \in 1..Len(text) : ~IsNone(CityAt(text, i, cities))}
    IN  IF ps = {} THEN None ELSE CityAt(text, CHOOSE i \in ps : \A j \in ps : i <= j, cities)

\* re.search of the keyword pattern: group 1 of the leftmost match
PlaceSearch(text, kw) ==
    LET ps == {i \in 1..Len(text) : ~IsNone(PlaceAt(text, i, kw))}
    IN  IF ps = {} THEN None ELSE PlaceAt(text, CHOOSE i \in ps : \A j \in ps : i <= j, kw)

\* LOCATION_PATTERNS in order: group 1 of the first pattern that matches
\* (it holds two letters at least, so the normalised location is never empty)
RECURSIVE FirstPlace(_, _)
FirstPlace(text, k) ==
    IF k > Len(PlaceKeywords) THEN None
    ELSE Let(PlaceSearch(text, PlaceKeywords[k]), LAMBDA m :
             IF IsNone(m) THEN FirstPlace(text, k + 1) ELSE m)
PatternLocation(text) ==
    Let(CitySearch(text, KnownCityWords), LAMBDA known :
        IF ~IsNone(known) THEN known
        ELSE Let(CitySearch(text, OtherCityWords), LAMBDA other :
                 IF ~IsNone(other) THEN other ELSE FirstPlace(text, 1)))

_extract_location_from_text(text) ==
    IF text = <<>> THEN None
    ELSE Let(AliasIn(Lower(text)), LAMBDA known :
             IF ~IsNone(known) THEN known
             ELSE Let(PatternLocation(text), LAMBDA m :
                      IF IsNone(m) THEN None
                      ELSE Some(_normalize_location(Strip(Val(m))))))

\* re.findall(r'\b\w+\b', s) as a set: the maximal runs of word characters
WordsOf(s) ==
    {SubSeq(s, p[1], p[2]) : p \in {q \in (1..Len(s)) \X (1..Len(s)) :
        /\ q[1] <= q[2]
        /\ \A k \in q[1]..q[2] : IsWordCh(s[k])
        /\ Boundary(s, q[1]) /\ Boundary(s, q[2] + 1)}}

\* self.similarity_threshold, 0.6
similarity_threshold == <<6, 10>>

_locations_match(location1, location2) ==
    IF location1 = <<>> \/ location2 = <<>> THEN FALSE
    ELSE Let(<<Strip(Lower(location1)), Strip(Lower(location2))>>, LAMBDA l :
             \/ l[1] = l[2]
             \/ Contains(l[2], l[1]) \/ Contains(l[1], l[2])
             \/ /\ ~IsNone(_get_canonical_location(l[1]))
                /\ _get_canonical_location(l[1]) = _get_canonical_location(l[2])
             \/ FracGE(similarity(l[1], l[2]), similarity_threshold)
             \/ (WordsOf(l[1]) \ common_words) \cap (WordsOf(l[2]) \ common_words) # {})

\* a conflict message that leaves the customer's own words out
ConflictMessage_selectedOnly(free_text, selected_label) ==
    S_mismatch \o S_butSelected \o selected_label \o S_usingSelected

\* the f-string of the conflict message
ConflictMessage(free_text, selected_label) ==
    S_mismatch \o free_text \o S_butSelected \o selected_label \o S_usingSelected

\* _determine_final_location with the customer's own words taking precedence
\* over the selected label
_determine_final_location_freeTextFirst(free_text, selected_label, postal_code) ==
    IF Truthy(free_text)
    THEN <<Val(free_text), FALSE, None, <<"identified from customer request", Val(free_text)>> >>
    ELSE IF Truthy(selected_label)
    THEN <<Val(selected_label), FALSE, None, <<"selected by customer", Val(selected_label)>> >>
    ELSE IF Truthy(postal_code)
    THEN <<S_zip \o Val(postal_code), FALSE, None, <<"based on postal code", Val(postal_code)>> >>
    ELSE <<S_unknown, FALSE, None, <<"default service area assumed">> >>

\* (final_location, has_conflict, conflict_message, rationale); the rationale
\* is the branch taken and the values its text embeds
_determine_final_location(free_text, selected_label, postal_code) ==
    IF Truthy(selected_label)
    THEN IF Truthy(free_text)
         THEN Let(~_locations_match(Val(free_text), Val(selected_label)), LAMBDA conflict :
                  IF conflict
                  THEN <<Val(selected_label), TRUE,
                         Some(ConflictMessage(Val(free_text), Val(selected_label))),
                         <<"please confirm", Val(selected_label), Val(free_text)>> >>
                  ELSE <<Val(selected_label), FALSE, None,
                         <<"confirmed by customer request", Val(selected_label)>> >>)
         ELSE <<Val(selected_label), FALSE, None,
                <<"selected by customer", Val(selected_label)>> >>
    ELSE IF Truthy(free_text)
    THEN <<Val(free_text), FALSE, None, <<"identified from customer request", Val(free_text)>> >>
    ELSE IF Truthy(postal_code)
    THEN <<S_zip \o Val(postal_code), FALSE, None, <<"based on postal code", Val(postal_code)>> >>
    ELSE <<S_unknown, FALSE, None, <<"default service area assumed">> >>

resolve(request_text, selected_location_label, postal_code) ==
    Let(IF Truthy(request_text) THEN _extract_location_from_text(Val(request_text)) ELSE None,
        LAMBDA free_text_location :
        Let(_determine_final_location(free_text_location, selected_location_label, postal_code),
            LAMBDA d :
            [location_free_text |-> free_text_location,
             location_selected  |-> selected_location_label,
             location_final     |-> d[1],
             location_conflict  |-> d[2],
             conflict_message   |-> d[3],
             rationale          |-> d[4]]))

(***************************************************************************)
(* Direct calls of the library functions, on arguments drawn from small    *)
(* sets.  `call` keeps the function, its arguments and what it returned.   *)
(***************************************************************************)
T_austin    == <<"t", "e", "n", "t", "s", " ", "i", "n", " ", "A", "u", "s", "t", "i", "n">>
T_dallas    == <<"c", "h", "a", "i", "r", "s", " ", "f", "o", "r", " ", "d", "a", "l", "l", "a", "s">>
T_plain     == <<"n", "e", "e", "d", " ", "c", "h", "a", "i", "r", "s">>
T_frisco    == <<"p", "a", "r", "t", "y", " ", "n", "e", "a", "r", " ", "f", "r", "i", "s", "c", "o", ",", " ", "t", "x">>
T_fortworth == <<"F", "o", "r", "t", " ", " ", "W", "o", "r", "t", "h">>
L_dallas    == <<"D", "a", "l", "l", "a", "s", ",", " ", "T", "X">>
L_austin    == <<"A", "u", "s", "t", "i", "n", ",", " ", "T", "X">>
L_fortworth == <<"F", "o", "r", "t", " ", "W", "o", "r", "t", "h", ",", " ", "T", "X">>
L_blank     == <<" ">>
Z_plano     == <<"7", "5", "0", "7", "4">>
RequestTexts == {None, Some(<<>>), Some(T_austin), Some(T_dallas), Some(T_plain),
                 Some(T_frisco), Some(T_fortworth)}
LocationLabels == {None, Some(<<>>), Some(L_dallas), Some(L_austin), Some(L_fortworth),
                   Some(L_blank)}
PostalCodes == {None, Some(<<>>), Some(Z_plano)}

\* a call that has not returned yet
Pending(fn, args) == Some([fn |-> fn, args |-> args, result |-> None])
ResolveCalls ==
    {Pending("resolve", <<t, l, z>>) : t \in RequestTexts, l \in LocationLabels, z \in PostalCodes}

\* messages whose line items resolve to one SKU more than once, or to none
P_fuzzyFirst == <<"2", " ", "c", "h", "a", "i", "r", "z", ",", " ", "3", " ", "c", "h", "a", "i", "r", "s">>
P_exactFirst == <<"3", " ", "c", "h", "a", "i", "r", "s", ",", " ", "2", " ", "c", "h", "a", "i", "r", "z">>
P_tie        == <<"2", " ", "c", "h", "a", "i", "r", "s", ",", " ", "3", " ", "c", "h", "a", "i", "r">>
P_lamps      == <<"4", " ", "l", "a", "m", "p", "s", ",", " ", "5", " ", "l", "a", "m", "p", "s">>
P_mixed      == <<"2", " ", "c", "h", "a", "i", "r", "z", ",", " ", "4", " ", "l", "a", "m", "p", "s", ",", " ", "3", " ", "c", "h", "a", "i", "r", "s", ",", " ", "4", " ", "l", "a", "m", "p", "s">>
P_tents      == <<"2", " ", "t", "e", "n", "t", "z", ",", " ", "1", " ", "t", "e", "n", "t", ",", " ", "3", " ", "y", "u", "r", "t", ",", " ", "3", " ", "y", "u", "r", "t">>
ParseTexts == MessageTexts \cup {P_fuzzyFirst, P_exactFirst, P_tie, P_lamps, P_mixed, P_tents}
ParseCalls == {Pending("parse_items_from_message", <<m>>) : m \in ParseTexts}

\* _compute: item lists of one or two priced SKUs, and the empty list
PricedItems == {Item(Some(sku), q) : sku \in DOMAIN Rates, q \in {1, 3}}
ItemLists == {<<>>} \cup {<<a>> : a \in PricedItems} \cup {<<a, b>> : a, b \in PricedItems}
\* the policies table as seeded with tier discounts, without a damage waiver
\* and tier discounts, and without a tax rate
PoliciesNoWaiver == [tax_rate |-> [pct |-> 825]]
PoliciesNoTax ==
    [default_damage_waiver |-> [pct |-> 1250], tier_discounts |-> [A |-> [pct |-> 1500]]]
ComputeCalls ==
    {Pending("_compute", <<items, days, policies, tier>>) :
        items \in ItemLists, days \in {1, 3},
        policies \in {Policies, PoliciesNoWaiver, PoliciesNoTax}, tier \in {"A", "C"}}

\* _duration_days: date strings ("soon" is one dateutil rejects) and messages
DateStrings == {None, Some(""), Some("2024-04-12"), Some("2024-04-14"), Some("soon")}
D_five         == <<"5", " ", "d", "a", "y", "s">>
D_one          == <<"1", " ", "d", "a", "y">>
D_zero         == <<"0", " ", "d", "a", "y", "s">>
D_weekend      == <<"w", "e", "e", "k", "e", "n", "d">>
D_aWeek        == <<"a", " ", "w", "e", "e", "k">>
D_week         == <<"w", "e", "e", "k">>
D_month        == <<"m", "o", "n", "t", "h">>
D_friSun       == <<"f", "r", "i", "d", "a", "y", " ", "t", "h", "r", "o", "u", "g", "h", " ", "s", "u", "n", "d", "a", "y">>
D_daysWeekend  == <<"2", " ", "d", "a", "y", "s", " ", "t", "h", "i", "s", " ", "w", "e", "e", "k", "e", "n", "d">>
D_zeroWeek     == <<"0", " ", "d", "a", "y", "s", " ", "f", "o", "r", " ", "a", " ", "w", "e", "e", "k">>
D_weekendMonth == <<"w", "e", "e", "k", "e", "n", "d", " ", "f", "o", "r", " ", "a", " ", "m", "o", "n", "t", "h">>
DurationTexts ==
    {<<>>, M_chairs, D_five, D_one, D_zero, D_weekend, D_aWeek, D_week, D_month, D_friSun,
     D_daysWeekend, D_zeroWeek, D_weekendMonth}
DurationCalls ==
    {Pending("_duration_days", <<start_s, end_s, message, FallbackDays>>) :
        start_s \in DateStrings, end_s \in DateStrings, message \in DurationTexts}

\* find_matching_sku: every synonym of the table, phrases that contain one,
\* phrases that are close to one, and phrases that are close to none
SynonymTexts == {ITEM_SYNONYMS[i].text : i \in 1..Len(ITEM_SYNONYMS)}
MatchPhrases ==
    SynonymTexts \cup
    {<<"w", "h", "i", "t", "e", " ", "c", "h", "a", "i", "r">>,
     <<"b", "i", "g", " ", "t", "e", "n", "t", "s">>,
     <<"b", "a", "n", "q", "u", "e", "t", " ", "t", "a", "b", "l", "e", "s">>,
     <<"8", "f", "t", " ", "r", "o", "u", "n", "d", " ", "t", "a", "b", "l", "e">>,
     <<"C", "H", "A", "I", "R", "S">>,
     <<" ", "c", "h", "a", "i", "r", " ">>,
     <<"c", "h", "a", "i", "r", "z">>,
     <<"t", "e", "n", "t", "z">>,
     <<"l", "a", "m", "p", "s">>,
     <<"u", "n", "i", "c", "o", "r", "n">>,
     <<"t", "a", "b", "e", "l">>,
     <<>>}
StrictSimilarity == <<95, 100>>
MatchCalls ==
    {Pending("find_matching_sku", <<p, m>>) :
        p \in MatchPhrases, m \in {MinSimilarity, StrictSimilarity}}

\* normalize_text: the texts made of at most MaxTokens tokens, among them
\* every notation of inches and feet, the bare units, a quote mark and a
\* run of two spaces
MaxTokens == 3
NormTokens ==
    {<<"8", "\"">>,
     <<"8", "-", "i", "n", "c", "h">>,
     <<"8", "i", "n">>,
     <<"8", "-", "f", "o", "o", "t">>,
     <<"8", "f", "t">>,
     <<" ", " ">>,
     <<"x">>,
     <<"8">>,
     <<"f", "t">>,
     <<"i", "n">>,
     <<"\"">>}
RECURSIVE TextsOf(_)
TextsOf(n) ==
    IF n = 0 THEN {<<>>}
    ELSE LET shorter == TextsOf(n - 1)
         IN  shorter \cup {t \o k : t \in shorter, k \in NormTokens}
NormalizeCalls == {Pending("normalize_text", <<t>>) : t \in TextsOf(MaxTokens)}

\* _parse_single_segment: segments of every pattern, in lower and upper
\* case, segments that two patterns could claim, and segments no pattern
\* matches
SegmentTexts ==
    {<<"q", "t", "y", " ", "5", " ", "s", "p", "e", "a", "k", "e", "r", "s">>,
     <<"q", "t", "y", ":", " ", "5", " ", "s", "p", "e", "a", "k", "e", "r", "s">>,
     <<"q", "t", "y", "5", " ", "c", "h", "a", "i", "r", "s">>,
     <<"q", "t", "y", " ", "0", " ", "c", "h", "a", "i", "r", "s">>,
     <<"Q", "T", "Y", " ", "3", " ", "t", "e", "n", "t", "s">>,
     <<"q", "t", "y", " ", "2", " ", "3", " ", "c", "h", "a", "i", "r", "s">>,
     <<"q", "t", "y", " ", "c", "h", "a", "i", "r", "s">>,
     <<"q", "t", "y", " ", "5">>,
     <<"5", "x", " ", "c", "h", "a", "i", "r", "s">>,
     <<"5", "X", " ", "c", "h", "a", "i", "r", "s">>,
     <<"0", "x", " ", "c", "h", "a", "i", "r", "s">>,
     <<"3", "x", " ", "4", " ", "c", "h", "a", "i", "r", "s">>,
     <<"5", "x", "c", "h", "a", "i", "r", "s">>,
     <<"5", " ", "6", "0", " ", "i", "n", "c", "h", " ", "r", "o", "u", "n", "d", " ", "t", "a", "b", "l", "e", "s">>,
     <<"5", " ", "6", "0", " ", "t", "a", "b", "l", "e", "s">>,
     <<"5", " ", "6", "0">>,
     <<"5", " ", "6">>,
     <<"5", " ", "6", "0", "f", "t", " ", "t", "a", "b", "l", "e", "s">>,
     <<"5", " ", "6", "0", " ", "I", "N", "C", "H", " ", "t", "a", "b", "l", "e", "s">>,
     <<"5", " ", "6", "0", " ", "F", "t", " ", "t", "a", "b", "l", "e">>,
     <<"5", " ", "8", " ", "f", "o", "o", "t", " ", "t", "a", "b", "l", "e">>,
     <<"5", " ", "6", "0", "i", "n">>,
     <<"5", " ", "6", "0", " ", "i", "n">>,
     <<"5", " ", "6", "0", " ", "i", "n", "c", "h">>,
     <<"5", "0", " ", "c", "h", "a", "i", "r", "s">>,
     <<"0", " ", "c", "h", "a", "i", "r", "s">>,
     <<"7">>,
     <<"a", " ", "d", "o", "z", "e", "n", " ", "t", "a", "b", "l", "e", "s">>,
     <<"a", "n", " ", "e", "l", "e", "v", "e", "n", " ", "c", "h", "a", "i", "r", "s">>,
     <<"A", " ", "D", "o", "z", "e", "n", " ", "t", "a", "b", "l", "e", "s">>,
     <<"a", " ", "a", " ", "c", "h", "a", "i", "r", "s">>,
     <<"a", " ", "c", "h", "a", "i", "r">>,
     <<"a", " ", "t", "e", "n", "t">>,
     <<"a", "n">>,
     <<"t", "e", "n", " ", "t", "e", "n", "t", "s">>,
     <<"T", "e", "n", " ", "t", "e", "n", "t", "s">>,
     <<"t", "e", "n", "f", "o", "l", "d", " ", "c", "h", "a", "i", "r", "s">>,
     <<"d", "o", "z", "e", "n", " ", "c", "h", "a", "i", "r", "s">>,
     <<"h", "u", "n", "d", "r", "e", "d">>,
     <<"z", "e", "r", "o", " ", "c", "h", "a", "i", "r", "s">>,
     <<"c", "h", "a", "i", "r", "s">>,
     <<"w", "h", "i", "t", "e", " ", "f", "o", "l", "d", "i", "n", "g", " ", "c", "h", "a", "i", "r", "s">>,
     <<" ", " ", "1", "2", " ", "c", "h", "a", "i", "r", "s", " ", " ">>,
     <<>>,
     <<"x", "3", " ", "c", "h", "a", "i", "r", "s">>,
     <<"5", " ", " ", "x", " ", "c", "h", "a", "i", "r", "s">>,
     <<"a", " ", " ", "h", "u", "n", "d", "r", "e", "d", " ", " ", "c", "h", "a", "i", "r", "s">>}
SegmentCalls == {Pending("_parse_single_segment", <<t>>) : t \in SegmentTexts}

\* extract_line_items, on the messages of parse_items_from_message
LineCalls == {Pending("extract_line_items", <<m>>) : m \in ParseTexts}

InitPure ==
    /\ runs = <<>>
    /\ steps = <<>>
    /\ req = [r \in Req |-> Idle]
    /\ fb = None
    /\ nfb = 0
    /\ call \in ResolveCalls \cup ParseCalls \cup ComputeCalls \cup DurationCalls
                \cup MatchCalls \cup NormalizeCalls
                \cup SegmentCalls \cup LineCalls

\* the pending call of fn returns v
Return(fn, v) ==
    /\ Val(call).fn = fn /\ IsNone(Val(call).result)
    /\ call' = Some([Val(call) EXCEPT !.result = Some(v)])
    /\ UNCHANGED <<runs, steps, req, fb, nfb>>

CallResolve == Return("resolve", resolve(Val(call).args[1], Val(call).args[2], Val(call).args[3]))

CallParse == Return("parse_items_from_message", parse_items_from_message(Val(call).args[1]))

CallCompute ==
    Return("_compute", _compute(Val(call).args[1], Val(call).args[2], Val(call).args[3],
                                Val(call).args[4], NoFault))

CallDuration ==
    Return("_duration_days", _duration_days(Val(call).args[1], Val(call).args[2],
                                            Val(call).args[3], Val(call).args[4]))

CallMatch ==
    Return("find_matching_sku", find_matching_sku(Val(call).args[1], Val(call).args[2]))

CallNormalize == Return("normalize_text", normalize_text(Val(call).args[1]))

CallSegment == Return("_parse_single_segment", _parse_single_segment(Val(call).args[1]))

CallLines == Return("extract_line_items", extract_line_items(Val(call).args[1]))

NextPure ==
    \/ CallResolve
    \/ CallParse
    \/ CallCompute
    \/ CallDuration
    \/ CallMatch
    \/ CallNormalize
    \/ CallSegment
    \/ CallLines

\* the library functions called directly, each call on arguments of its own
SpecPure == InitPure /\ [][NextPure]_vars

(***************************************************************************)
(* Properties.                                                             *)
(***************************************************************************)
HasStep(rid, kind, by) ==
    \E k \in 1..Len(steps[rid]) : steps[rid][k].kind = kind /\ steps[rid][k].by = by
Raised(r, type, msg) == req[r].exc = Some([type |-> type, msg |-> msg])
BadInput(r) ==
    Raised(r, "ValueError", "rate not found") \/ Raised(r, "ValueError", "subtotal must be positive")
Answer(r) == Val(req[r].resp)
Returned(r) == req[r].pc = "done"

\* C1: when run_quote_loop fails on a missing rate or on the guardrail, the
\* error is returned to the caller only with an 'error' step in the run's log
\* and the run finished at cost 0; the one other answer is the unhandled
\* exception of a store that failed while recording.
C1_ErrorRecordedBeforeReturn ==
    \A r \in Req :
        Returned(r) /\ BadInput(r) =>
            \/ Answer(r) = InternalError
            \/ /\ Answer(r) = [status |-> 400, error |-> "QUOTE_GENERATION_ERROR",
                               message |-> "Invalid quote data",
                               run_id |-> Some(req[r].run_id), quote |-> None]
               /\ HasStep(req[r].run_id, "error", r)
               /\ runs[req[r].run_id] = [status |-> "finished", cost_usd |-> 0]

C1_RateNotFoundReturned ==
    \E r \in Req :
        /\ Returned(r)
        /\ Raised(r, "ValueError", "rate not found")
        /\ Answer(r).error = "QUOTE_GENERATION_ERROR"

\* the language the notes of request r are written in
LangKey(r) ==
    LET language == Val(req[r].payload).language
    IN  IF ~IsNone(language) /\ Val(language) \in {"en-US", "es-ES", "ar-SA", "ja-JP"}
        THEN Val(language) ELSE "en-US"
SummaryFailed(r) == req[r].summary \in {"OpenAIError", "Exception"}
FirstNote(r) == Val(req[r].out).notes[1]

\* C2 (as the code has it): after the guardrail, run_quote_loop returns a
\* quote whatever the summary call does; a failed call leaves no exception
\* and is replaced by one of two fixed notes in the request's language
\* (English for an unsupported one): ai_fallback for a provider error,
\* ai_error for any other exception.
C2_SummaryFailureReplaced ==
    \A r \in Req :
        /\ req[r].summary # "" => ~IsNone(req[r].out) /\ IsNone(req[r].exc)
        /\ SummaryFailed(r) =>
              /\ FirstNote(r) = [key |-> IF req[r].summary = "OpenAIError"
                                         THEN "ai_fallback" ELSE "ai_error",
                                 lang |-> LangKey(r), count |-> 0, names |-> <<>>]
              /\ Returned(r) => Answer(r).status = 200 /\ ~IsNone(Answer(r).quote)

C2_OtherExceptionInFrench ==
    \E r \in Req :
        /\ Returned(r)
        /\ req[r].summary = "Exception"
        /\ Val(req[r].payload).language = Some("fr-FR")
        /\ Answer(r).status = 200

\* C2 (as the specification states it): every failure of the summary call
\* is replaced by one fixed note per language: two requests in the same
\* language whose summary calls fail carry the same note.
C2_OneFixedFallbackNote ==
    \A r1, r2 \in Req :
        SummaryFailed(r1) /\ SummaryFailed(r2) /\ LangKey(r1) = LangKey(r2)
            => FirstNote(r1) = FirstNote(r2)

\* C6: a request with neither a message nor items is answered with the
\* validation error and starts nothing: it has no run id, no step is its, and
\* there are no more run rows than requests that passed the validation.
NoInput(p) == (IsNone(p.message) \/ Val(p.message) = <<>>) /\ p.items = <<>>
Submitted(r) == ~IsNone(req[r].payload)
C6_RejectedBeforeRun ==
    /\ \A r \in Req :
          Submitted(r) /\ NoInput(Val(req[r].payload)) =>
              /\ Returned(r)
              /\ Answer(r).error = "VALIDATION_ERROR" /\ Answer(r).status = 400
              /\ req[r].run_id = 0
              /\ \A rid \in 1..Len(steps) : \A k \in 1..Len(steps[rid]) : steps[rid][k].by # r
    /\ Len(runs) <= Cardinality({r \in Req : Submitted(r) /\ ~NoInput(Val(req[r].payload))})
    /\ Len(steps) = Len(runs)

C6_EmptyMessageRejected ==
    \E r \in Req :
        /\ Submitted(r)
        /\ Val(req[r].payload).message = Some(<<>>)
        /\ Val(req[r].payload).items = <<>>
        /\ Returned(r)
        /\ runs = <<>>

\* the steps of a run that store a quote, and the quote a feedback read
StepsOfKind(rid, kinds) == {k \in 1..Len(steps[rid]) : steps[rid][k].kind \in kinds}
Last(K) == CHOOSE k \in K : \A j \in K : j <= k
PricedQuote(rid) == steps[rid][Last(StepsOfKind(rid, {"pricing"}))].output
ReadBy(rid, k) ==
    steps[rid][Last({j \in StepsOfKind(rid, {"policy_guardrails", "feedback_apply"}) : j < k})]
MoneyLines(quote) ==
    [i \in 1..Len(quote.items) |->
        [sku |-> quote.items[i].sku, qty |-> quote.items[i].qty,
         unitPrice |-> quote.items[i].unitPrice, subtotal |-> quote.items[i].subtotal]]

\* every quote a feedback stores has the subtotal, the tax and the priced
\* lines of the pricing pass
SubtotalAndTaxFrozen ==
    \A rid \in 1..Len(steps) : \A k \in StepsOfKind(rid, {"feedback_apply"}) :
        /\ steps[rid][k].output.subtotal = PricedQuote(rid).subtotal
        /\ steps[rid][k].output.tax = PricedQuote(rid).tax
        /\ MoneyLines(steps[rid][k].output) = MoneyLines(PricedQuote(rid))

\* a feedback that read a quote stored by an earlier feedback stores the
\* same quote, but for its fee list and its total
OnlyFeesAndTotalChange ==
    \A rid \in 1..Len(steps) : \A k \in StepsOfKind(rid, {"feedback_apply"}) :
        ReadBy(rid, k).kind = "feedback_apply" =>
            [steps[rid][k].output EXCEPT !.fees = <<>>, !.total = 0]
                = [ReadBy(rid, k).output EXCEPT !.fees = <<>>, !.total = 0]

\* C3: over any sequence of feedback submissions the latest stored quote of
\* a run keeps the subtotal and the tax of the pricing pass, and a feedback
\* changes nothing of the stored quote but its fee list and its total.
C3_FeedbackChangesOnlyFeesAndTotal == SubtotalAndTaxFrozen /\ OnlyFeesAndTotalChange

\* C4: a run whose discounted subtotal is <= 0 ends with the guardrail
\* violation and no quote carrying a total is recorded in its audit log or
\* returned.
C4_NoTotalOnGuardrailViolation ==
    \A r \in Req :
        Raised(r, "ValueError", "subtotal must be positive") =>
            /\ \A k \in 1..Len(steps[req[r].run_id]) :
                  "total" \notin DOMAIN steps[req[r].run_id][k].output
            /\ Returned(r) => IsNone(Answer(r).quote)

\* the goodwill fees of a stored quote
Goodwill(quote) ==
    {i \in 1..Len(quote.fees) :
        "rule" \in DOMAIN quote.fees[i] /\ quote.fees[i].rule = "goodwill_discount"}

\* C5: over any sequence of feedback submissions for a run, the goodwill fee
\* is in the fee list of its stored quote at most once and the total is
\* lowered at most once, by that fee.
C5_GoodwillAtMostOnce ==
    \A rid \in 1..Len(steps) : \A k \in StepsOfKind(rid, {"feedback_apply"}) :
        LET quote == steps[rid][k].output
        IN  /\ Cardinality(Goodwill(quote)) <= 1
            /\ \/ quote.total = PricedQuote(rid).total
               \/ \E i \in Goodwill(quote) :
                      quote.total = PricedQuote(rid).total + quote.fees[i].amount

\* C7: a failure of the policy or rate store during a started run is
\* answered with an error kind other than the kind answered for bad input
\* (QUOTE_GENERATION_ERROR, as for a missing rate or a guardrail violation).
C7_StoreFailureKindDiffers ==
    \A r \in Req :
        Returned(r) /\ ~IsNone(req[r].exc) /\ Val(req[r].exc).type = "DatabaseError"
            => Answer(r).error # "QUOTE_GENERATION_ERROR"

\* the quote run_quote returns for payload p, the summary call ending in
\* `outcome`, when no other request is served: None when it returns an error
QuoteAlone(p, outcome) ==
    IF NoInput(p) THEN None
    ELSE Let(Normalized(p), LAMBDA n :
         Let(_compute(n.items, n.days, Policies, n.tier, NoFault), LAMBDA priced :
             IF ~priced.ok THEN None
             ELSE IF priced.quote.subtotal <= 0 THEN None
             ELSE Some(_adapt_quote_for_ui(SummaryStage(priced.quote, p, n, outcome)))))

\* C8: two concurrent requests have different run ids, every step carries
\* the id of the run it is filed under and that run is its request's, and
\* the quote a request returns is the one it returns when run alone.
C8_ConcurrentRequestsIndependent ==
    /\ \A r1, r2 \in Req :
          r1 # r2 /\ req[r1].run_id # 0 /\ req[r2].run_id # 0 => req[r1].run_id # req[r2].run_id
    /\ \A rid \in 1..Len(steps) : \A k \in 1..Len(steps[rid]) :
          /\ steps[rid][k].run_id = rid
          /\ steps[rid][k].by \in Req /\ req[steps[rid][k].by].run_id = rid
    /\ \A r \in Req :
          Returned(r) => Answer(r).quote = QuoteAlone(Val(req[r].payload), req[r].summary)

C8_BothAnsweredOutOfOrder ==
    /\ \A r \in Req : Returned(r) /\ Answer(r).status = 200
    /\ req[1].run_id = 2 /\ req[2].run_id = 1
    /\ req[1].payload # req[2].payload

WithoutNotes(quote) == [quote EXCEPT !.notes = <<>>]
Summarised(r) == ~IsNone(req[r].out)

\* C9: two runs on the same payload return quotes that differ in their
\* notes at most, whatever their summary calls did: the quote of
\* run_quote_loop and the quote of the response.
C9_NumbersIndependentOfSummary ==
    \A r1, r2 \in Req :
        Summarised(r1) /\ Summarised(r2) /\ req[r1].payload = req[r2].payload =>
            /\ WithoutNotes(Val(req[r1].out)) = WithoutNotes(Val(req[r2].out))
            /\ Returned(r1) /\ Returned(r2) =>
                   WithoutNotes(Val(Answer(r1).quote)) = WithoutNotes(Val(Answer(r2).quote))

C9_OneSummaryFailedOneNot ==
    /\ req[1].payload = req[2].payload
    /\ req[1].summary = "ok" /\ req[2].summary = "Exception"
    /\ \A r \in Req : Returned(r) /\ Answer(r).status = 200

\* the matched items parsed from the message of payload p
MatchedParsed(p) ==
    IF IsNone(p.message) \/ Strip(Val(p.message)) = <<>> THEN <<>>
    ELSE Let(ParsedItems(Strip(Val(p.message))), LAMBDA parsed :
             SelectSeq(parsed, LAMBDA i : i.matched /\ ~IsNone(i.sku)))
Normalised(r) == ~IsNone(req[r].n)

\* C10: the item list handed to pricing is non-empty: the explicit items
\* when there is one, else the matched parsed items when there is one, else
\* the one default item; the pricing step prices that list.
C10_ItemPrecedence ==
    \A r \in Req :
        Normalised(r) =>
            LET p == Val(req[r].payload)
                items == Val(req[r].n).items
            IN  /\ items # <<>>
                /\ p.items # <<>> => items = p.items
                /\ p.items = <<>> /\ MatchedParsed(p) # <<>> =>
                       items = [i \in 1..Len(MatchedParsed(p)) |->
                                   [sku |-> MatchedParsed(p)[i].sku,
                                    quantity |-> MatchedParsed(p)[i].quantity]]
                /\ p.items = <<>> /\ MatchedParsed(p) = <<>> =>
                       items = <<[sku |-> Some("CHAIR-FOLD-WHT"), quantity |-> 100]>>
                /\ StepsOfKind(req[r].run_id, {"pricing"}) # {} =>
                       [i \in 1..Len(items) |-> items[i].sku]
                           = [i \in 1..Len(PricedQuote(req[r].run_id).items) |->
                                 Some(PricedQuote(req[r].run_id).items[i].sku)]

C10_DefaultForUnmatched ==
    \E r \in Req :
        /\ Normalised(r)
        /\ Val(req[r].payload).message = Some(M_unicorn)
        /\ Val(req[r].payload).items = <<>>
        /\ Val(req[r].n).items = <<DefaultItem>>
        /\ StepsOfKind(req[r].run_id, {"pricing"}) # {}

\* the SKUs the rates table has a row for
Priced(sku) == ~IsNone(sku) /\ Val(sku) \in {"CHAIR-FOLD-WHT", "TENT-20x20"}
HasUnpriced(items) == \E i \in 1..Len(items) : ~Priced(items[i].sku)

\* C11: when an item of the list handed to pricing, at any position, has a
\* SKU without a rate, the run gets no quote at all: it never passes
\* pricing, no 'pricing' or 'policy_guardrails' step is recorded, no quote
\* is returned, and once pricing has run the run has failed: with "rate not
\* found" unless the store failed first.
C11_NoPartialPricing ==
    \A r \in Req :
        Normalised(r) /\ HasUnpriced(Val(req[r].n).items) =>
            /\ req[r].pc \notin {"guardrails", "summary", "finish"}
            /\ StepsOfKind(req[r].run_id, {"pricing", "policy_guardrails"}) = {}
            /\ IsNone(req[r].quote) /\ IsNone(req[r].out)
            /\ Returned(r) => IsNone(Answer(r).quote)
            /\ req[r].pc \in {"error", "error_finish", "done"} =>
                  \/ Raised(r, "ValueError", "rate not found")
                  \/ Val(req[r].exc).type \in {"DatabaseError", "SQLAlchemyError"}

C11_SecondItemWithoutRate ==
    \E r \in Req :
        /\ Returned(r)
        /\ Val(req[r].payload).items = I_lastNoRate
        /\ Raised(r, "ValueError", "rate not found")
        /\ Answer(r).error = "QUOTE_GENERATION_ERROR"

\* the line items of the message of payload p that resolved to no SKU
UnmatchedParsed(p) ==
    IF IsNone(p.message) \/ Strip(Val(p.message)) = <<>> THEN <<>>
    ELSE Let(ParsedItems(Strip(Val(p.message))), LAMBDA parsed :
             SelectSeq(parsed, LAMBDA i : ~i.matched \/ IsNone(i.sku)))
UnmatchedNotes(quote) ==
    {k \in 1..Len(quote.notes) : quote.notes[k].key = "unmatched_note"}

\* C12: a run whose message yields unmatched items hands none of them to
\* pricing (every item handed over is an explicit item, a matched item or
\* the default item), fails only for a store failure, an unpriced SKU or a
\* zero quantity among the items handed over, and returns a quote with
\* exactly one note on unmatched items, naming each of them in order.
C12_UnmatchedAreData ==
    \A r \in Req :
        Normalised(r) /\ UnmatchedParsed(Val(req[r].payload)) # <<>> =>
            LET p == Val(req[r].payload)
                U == UnmatchedParsed(p)
                items == Val(req[r].n).items
            IN  /\ \/ items = p.items
                   \/ items = [i \in 1..Len(MatchedParsed(p)) |->
                                  [sku |-> MatchedParsed(p)[i].sku,
                                   quantity |-> MatchedParsed(p)[i].quantity]]
                   \/ items = <<[sku |-> Some("CHAIR-FOLD-WHT"), quantity |-> 100]>>
                /\ Raised(r, "ValueError", "rate not found") => HasUnpriced(items)
                /\ Raised(r, "ValueError", "subtotal must be positive") =>
                       \A i \in 1..Len(items) : items[i].quantity = 0
                /\ ~IsNone(req[r].exc) =>
                       Val(req[r].exc).type \in {"ValueError", "DatabaseError", "SQLAlchemyError"}
                /\ Summarised(r) =>
                       /\ Cardinality(UnmatchedNotes(Val(req[r].out))) = 1
                       /\ \A k \in UnmatchedNotes(Val(req[r].out)) :
                              Val(req[r].out).notes[k].names
                                  = [i \in 1..Len(U) |-> Val(U[i].unmatched_name)]
                /\ Returned(r) /\ Answer(r).status = 200 =>
                       Val(Answer(r).quote).notes = Val(req[r].out).notes

C12_MixedMessageAnswered ==
    \E r \in Req :
        /\ Returned(r) /\ Answer(r).status = 200
        /\ Val(req[r].payload).message = Some(M_mixed)
        /\ Val(req[r].payload).items = <<>>
        /\ Len(Val(Answer(r).quote).items) = 1

\* the direct call is a call of fn that has returned
Called(fn) == ~IsNone(call) /\ Val(call).fn = fn /\ ~IsNone(Val(call).result)
Args == Val(call).args
Result == Val(Val(call).result)

\* C13: whenever resolve is given a non-empty selected location label, the
\* final location it returns is that label, whatever the request text and
\* the postal code are, a text that names another place included.
C13_SelectedLabelIsFinal ==
    Called("resolve") /\ Truthy(Args[2]) => Result.location_final = Val(Args[2])

\* resolve was called with a text naming Austin and the label "Dallas, TX",
\* and returned the label
C13_TextNamesAnotherPlace ==
    /\ Called("resolve")
    /\ Args[1] = Some(T_austin) /\ Args[2] = Some(L_dallas)
    /\ Result.location_free_text = Some(<<"A", "u", "s", "t", "i", "n">>)
    /\ Result.location_final = L_dallas

\* C14: the conflict flag of resolve is true only when a location was
\* extracted from the free text, a selected label is present and the two
\* are judged not to match; the conflict message is non-null exactly when
\* the flag is true, and it holds both the free-text location and the label.
C14_ConflictOnlyOnMismatch ==
    Called("resolve") =>
        /\ Result.location_conflict =>
              /\ Truthy(Result.location_free_text) /\ Truthy(Args[2])
              /\ ~_locations_match(Val(Result.location_free_text), Val(Args[2]))
        /\ ~IsNone(Result.conflict_message) <=> Result.location_conflict
        /\ Result.location_conflict =>
              /\ Contains(Val(Result.conflict_message), Val(Result.location_free_text))
              /\ Contains(Val(Result.conflict_message), Val(Args[2]))

\* resolve was called with a text naming Austin and the label "Dallas, TX":
\* it reported a conflict
C14_AustinAgainstDallas ==
    /\ Called("resolve")
    /\ Result.location_free_text = Some(<<"A", "u", "s", "t", "i", "n">>)
    /\ Result.location_selected = Some(L_dallas)
    /\ Result.location_conflict
    /\ ~IsNone(Result.conflict_message)

\* an argument that is neither None nor the empty string
Present(s) == s \notin {None, Some(<<>>)}

\* C15: the final location of resolve is never empty and follows a fixed
\* fallback order: the selected label, else the location extracted from the
\* free text, else "ZIP " followed by the postal code, else the literal
\* "Unknown / Not provided"; an empty string counts as absent at every level.
C15_FallbackOrder ==
    Called("resolve") =>
        /\ Result.location_final # <<>>
        /\ Result.location_final =
              IF Present(Args[2]) THEN Val(Args[2])
              ELSE IF Present(Result.location_free_text) THEN Val(Result.location_free_text)
              ELSE IF Present(Args[3]) THEN S_zip \o Val(Args[3])
              ELSE S_unknown
        /\ ~Present(Args[1]) => IsNone(Result.location_free_text)

\* resolve was called with an empty label, a text that names no place and a
\* postal code: the final location is "ZIP 75074"
C15_EmptyLabelFallsToZip ==
    /\ Called("resolve")
    /\ Args = <<Some(T_plain), Some(<<>>), Some(Z_plano)>>
    /\ IsNone(Result.location_free_text)
    /\ Result.location_final = S_zip \o Z_plano

\* the line items of a message, each resolved to a SKU or to none, before
\* duplicates are removed
Resolved(message) ==
    Let(extract_line_items(message), LAMBDA l : [i \in 1..Len(l) |-> MatchItem(l[i])])
Unmatched(items) == SelectSeq(items, LAMBDA it : IsNone(it.sku))

RECURSIVE Undiscounted(_, _)
Undiscounted(items, days) ==
    IF items = <<>> THEN 0
    ELSE Rates[Val(items[1].sku)].daily * days * items[1].quantity
         + Undiscounted(Tail(items), days)
\* the percentage (in hundredths of a percent) a policy row gives, 0 without it
PctOf(policies, key) == IF key \in DOMAIN policies THEN policies[key].pct ELSE 0
\* the amount of the fee of that name in a quote, 0 when it has none
FeeAmount(quote, name) ==
    LET K == {k \in 1..Len(quote.fees) : quote.fees[k].name = name}
    IN  IF K = {} THEN 0 ELSE quote.fees[CHOOSE k \in K : TRUE].amount

\* n is num / den rounded to a nearest integer
Rounds(n, num, den) ==
    LET d == n * den - num IN 2 * d <= den /\ 2 * d >= -den

\* C17: in whole cents, the quote _compute returns has subtotal = undiscounted
\* subtotal - round(undiscounted subtotal * tier pct / 100), the pct being 0
\* for a tier without an entry; damage waiver = round(subtotal * waiver pct /
\* 100), on the discounted subtotal; tax = round((subtotal + damage waiver +
\* delivery) * tax pct / 100); total = subtotal + damage waiver + delivery + tax.
C17_ComputeArithmetic ==
    Called("_compute") /\ Result.ok =>
        LET q        == Result.quote
            policies == Args[3]
            und      == Undiscounted(Args[1], Args[2])
            tier_pct == IF /\ "tier_discounts" \in DOMAIN policies
                           /\ Args[4] \in DOMAIN policies.tier_discounts
                        THEN policies.tier_discounts[Args[4]].pct ELSE 0
            dw       == FeeAmount(q, "Damage Waiver")
            delivery == FeeAmount(q, "Delivery & Pickup")
        IN  /\ q.subtotal_before_discount = und
            /\ Rounds(und - q.subtotal, und * tier_pct, 10000)
            /\ Rounds(dw, q.subtotal * PctOf(policies, "default_damage_waiver"), 10000)
            /\ Rounds(q.tax, (q.subtotal + dw + delivery) * PctOf(policies, "tax_rate"), 10000)
            /\ q.total = q.subtotal + dw + delivery + q.tax

\* three tables and a tent for three days at tier A under the seeded
\* policies: 54000 undiscounted, 45900 after 15%, waiver 3672, delivery
\* 12000, tax 5080, total 66652
C17_TierADiscountedOrder ==
    /\ Called("_compute")
    /\ Args = <<<<Item(Some("TABLE-8FT"), 3), Item(Some("TENT-20x20"), 1)>>, 3, Policies, "A">>
    /\ Result.ok
    /\ Result.quote.subtotal = 45900
    /\ Result.quote.tax = 5080
    /\ Result.quote.total = 66652

\* the positions of the delivery fee in the fee list of a quote
DeliveryFees(quote) == {k \in 1..Len(quote.fees) : quote.fees[k].name = "Delivery & Pickup"}
\* the largest delivery base among the rates of the items, 0 without items
MaxDeliveryBase(items) ==
    LET bases == {Rates[Val(items[i].sku)].delivery_fee_base : i \in 1..Len(items)} \cup {0}
    IN  CHOOSE b \in bases : \A c \in bases : c <= b

\* C18: a quote carries at most one delivery fee whatever the number of its
\* line items: its amount is the largest delivery base among the rates of
\* the items (not their sum, not one fee per SKU), and the fee is left out
\* of the fee list when that maximum is zero.
C18_OneDeliveryFee ==
    Called("_compute") /\ Result.ok =>
        /\ Len(Result.quote.items) = Len(Args[1])
        /\ Cardinality(DeliveryFees(Result.quote)) <= 1
        /\ DeliveryFees(Result.quote) = {} <=> MaxDeliveryBase(Args[1]) = 0
        /\ \A k \in DeliveryFees(Result.quote) :
              Result.quote.fees[k].amount = MaxDeliveryBase(Args[1])

\* chairs (base 2500) and a tent (base 12000) were priced together: two line
\* items, one delivery fee of 12000
C18_ChairsAndTent ==
    /\ Called("_compute")
    /\ Args[1] = <<Item(Some("CHAIR-FOLD-WHT"), 3), Item(Some("TENT-20x20"), 1)>>
    /\ Len(Result.quote.items) = 2
    /\ \E k \in DeliveryFees(Result.quote) : Result.quote.fees[k].amount = 12000

\* both date arguments are given and dateutil parses them
BothParse(start_s, end_s) ==
    /\ ~IsNone(start_s) /\ Val(start_s) \in DOMAIN KnownDates
    /\ ~IsNone(end_s) /\ Val(end_s) \in DOMAIN KnownDates
\* the positions of the "N day(s)" phrases of a message, and the N of the first
DayPhrases(message) == {i \in 1..Len(message) : DaysAt(Lower(message), i)}
FirstN(message) ==
    LET m == Lower(message)
        i == CHOOSE i \in DayPhrases(message) : \A j \in DayPhrases(message) : i <= j
    IN  IntOf(SubSeq(m, i, i + SpanLen(Drop(m, i - 1), Digits) - 1))
\* the day counts of the fixed phrases a message holds
FixedPhraseDays(message) ==
    LET m == Lower(message)
        P == 1..Len(m)
    IN  {d \in {3, 7, 30} :
            \/ d = 3 /\ \E i \in P : WordAt(m, i, S_weekend) \/ FridaySundayAt(m, i)
            \/ d = 7 /\ \E i \in P : WeekAt(m, i)
            \/ d = 30 /\ \E i \in P : WordAt(m, i, S_month)}

C20_SwappedDatesSameDuration ==
    Called("_duration_days") /\ BothParse(Args[1], Args[2]) =>
        Result = _duration_days(Args[2], Args[1], Args[3], Args[4])

(***************************************************************************)
(* C21: for every synonym k of the table, find_matching_sku(k) returns the *)
(* SKU the table maps k to, with confidence exactly 1.0, also when         *)
(* normalize_text rewrites k ("8ft banquet table", '60" round table').     *)
(***************************************************************************)
SkuOfSynonym(k) == ITEM_SYNONYMS[CHOOSE i \in 1..Len(ITEM_SYNONYMS) : ITEM_SYNONYMS[i].text = k].sku

C22_NormalizeIdempotent ==
    Called("normalize_text") => normalize_text(Result) = Result

\* a text with a quote mark, a foot abbreviation and a run of two spaces has
\* been rewritten to one with both units spelled out
C22_MixedNotationsNormalized ==
    /\ Called("normalize_text")
    /\ Contains(Args[1], <<"\"">>) /\ Contains(Args[1], S_ft) /\ Contains(Args[1], <<" ", " ">>)
    /\ Contains(Result, S_inch) /\ Contains(Result, S_foot)
    /\ ~Contains(Result, <<" ", " ">>)

(***************************************************************************)
(* C23: in every run the stage steps of the audit log are a prefix of      *)
(* normalize, policies, pricing, policy_guardrails (fixed order, each at   *)
(* most once, none without those before it), and after a failure in        *)
(* fetching the policies, in pricing or in the guardrail the log holds the *)
(* steps of the stages before the failure and no other stage step.         *)
(***************************************************************************)
StageOrder == <<"normalize", "policies", "pricing", "policy_guardrails">>
IsStageStep(step) == \E k \in 1..Len(StageOrder) : StageOrder[k] = step.kind
StageKinds(rid) == Let(SelectSeq(steps[rid], IsStageStep), LAMBDA log : [k \in 1..Len(log) |-> log[k].kind])
\* the number of stage steps a run has when the exception `exc` left the loop
StagesBefore(exc) ==
    CASE exc.msg = "Failed to fetch pricing policies" -> {1}
      [] exc.msg \in {"rate not found", "Failed to fetch rate"} -> {2}
      [] exc.msg = "subtotal must be positive" -> {3}
      [] OTHER -> 0..3

C23_StagesInOrder ==
    /\ \A rid \in 1..Len(steps) :
           Let(StageKinds(rid), LAMBDA kinds :
               Len(kinds) <= Len(StageOrder) /\ kinds = SubSeq(StageOrder, 1, Len(kinds)))
    /\ \A r \in Req :
           ~IsNone(req[r].exc) => Len(StageKinds(req[r].run_id)) \in StagesBefore(Val(req[r].exc))

\* a request whose guardrail failed has been answered: its run has the
\* steps of the three stages before the guardrail and no guardrail step
C23_GuardrailFailedAfterPricing ==
    \E r \in Req :
        /\ req[r].pc = "done" /\ ~IsNone(req[r].exc)
        /\ Val(req[r].exc).msg = "subtotal must be positive"
        /\ StageKinds(req[r].run_id) = <<"normalize", "policies", "pricing">>

(***************************************************************************)
(* C24: find_matching_sku tries three tiers in order and stops at the      *)
(* first that succeeds: the normalized phrase is a synonym -> its SKU with *)
(* 1.0; else a synonym is contained in the phrase -> the SKU of the        *)
(* longest one with min(1.0, 0.85 + len(synonym)/50); else the best fuzzy  *)
(* score, kept only when it reaches min_similarity; else (None, 0.0).  A   *)
(* phrase that contains a synonym is never resolved by the fuzzy tier.     *)
(***************************************************************************)
Synonyms == 1..Len(ITEM_SYNONYMS)
InPhrase(n) == {i \in Synonyms : Contains(n, normalize_text(ITEM_SYNONYMS[i].text))}
FracEq(a, b) == a[1] * b[2] = b[1] * a[2]

IsDigits(t) == t # <<>> /\ \A i \in 1..Len(t) : t[i] \in Digits
\* the segment from position i to position j
Cut(s, i, j) == SubSeq(s, i, j)
\* `\s+(.+)$` from position i: a space, then at least one more character
ItemFrom(s, i) == i < Len(s) /\ IsSpace(s[i])
\* "qty", separators up to b, digits up to c
QtyCuts(s) ==
    {bc \in (3..Len(s)) \X (4..Len(s)) :
        /\ Lower(Take(s, 3)) = S_qty
        /\ \A i \in 4..bc[1] : s[i] \in Spaces \cup {":"}
        /\ bc[1] < bc[2] /\ IsDigits(Cut(s, bc[1] + 1, bc[2]))
        /\ ItemFrom(s, bc[2] + 1)}
\* digits up to c, then "x"
NxCuts(s) ==
    {c \in 1..Len(s) : IsDigits(Take(s, c)) /\ c < Len(s) /\ LowerCh(s[c + 1]) = "x"
                        /\ ItemFrom(s, c + 2)}
\* digits up to a, spaces up to b, all the digits that follow up to c, and
\* either something after them or a last digit to give up
SizeCuts(s) ==
    {abc \in (1..Len(s)) \X (2..Len(s)) \X (3..Len(s)) :
        /\ abc[1] < abc[2] /\ abc[2] < abc[3]
        /\ IsDigits(Take(s, abc[1]))
        /\ \A i \in (abc[1] + 1)..abc[2] : IsSpace(s[i])
        /\ IsDigits(Cut(s, abc[2] + 1, abc[3]))
        /\ abc[3] = Len(s) \/ s[abc[3] + 1] \notin Digits
        /\ abc[3] < Len(s) \/ abc[3] - abc[2] >= 2}
\* digits up to a
NumberCuts(s) == {a \in 1..Len(s) : IsDigits(Take(s, a)) /\ ItemFrom(s, a + 1)}
\* a word number up to a
WordCuts(s) == {a \in 1..Len(s) : IsWordNumber(Lower(Take(s, a))) /\ ItemFrom(s, a + 1)}
\* "a" or "an" up to a, spaces up to b, a word number other than those up to c
ArticleCuts(s) ==
    {abc \in (1..2) \X (2..Len(s)) \X (3..Len(s)) :
        /\ abc[1] < abc[2] /\ abc[2] < abc[3]
        /\ Lower(Take(s, abc[1])) \in {S_a, S_an}
        /\ \A i \in (abc[1] + 1)..abc[2] : IsSpace(s[i])
        /\ IsWordNumber(Lower(Cut(s, abc[2] + 1, abc[3])))
        /\ Lower(Cut(s, abc[2] + 1, abc[3])) \notin {S_a, S_an}
        /\ ItemFrom(s, abc[3] + 1)}
Plain(item, qty, name) ==
    item.qty = qty /\ item.normalizedName = Strip(name) /\ IsNone(item.attributes)
\* the second number M, a unit, and what follows; when nothing follows M,
\* its last digit is what follows
Sized(item, s, abc) ==
    LET M == Cut(s, abc[2] + 1, abc[3])
    IN  /\ item.qty = IntOf(Take(s, abc[1]))
        /\ ~IsNone(item.attributes)
        /\ IF abc[3] < Len(s)
           THEN \E unit \in {Cut(item.normalizedName, Len(M) + 2, Len(M) + 5)} :
                    /\ Lower(unit) \in {S_inch, S_foot}
                    /\ StartsWith(item.normalizedName, M \o S_sp \o unit \o S_sp)
                    /\ item.attributes = Some(M \o unit)
           ELSE item.normalizedName
                    = Take(M, Len(M) - 1) \o S_sp \o S_inch \o S_sp \o <<M[Len(M)]>>

C25_FirstPatternDecides ==
    Called("_parse_single_segment") =>
        Let(Strip(Args[1]), LAMBDA s :
            IF s = <<>> THEN Result = None
            ELSE /\ ~IsNone(Result)
                 /\ Val(Result).rawText = s
                 /\ IF QtyCuts(s) # {}
                    THEN \A bc \in QtyCuts(s) :
                             Plain(Val(Result), IntOf(Cut(s, bc[1] + 1, bc[2])), Drop(s, bc[2]))
                    ELSE IF NxCuts(s) # {}
                    THEN \A c \in NxCuts(s) : Plain(Val(Result), IntOf(Take(s, c)), Drop(s, c + 1))
                    ELSE IF SizeCuts(s) # {}
                    THEN \A abc \in SizeCuts(s) : Sized(Val(Result), s, abc)
                    ELSE IF NumberCuts(s) # {}
                    THEN \A a \in NumberCuts(s) : Plain(Val(Result), IntOf(Take(s, a)), Drop(s, a))
                    ELSE IF ArticleCuts(s) # {}
                    THEN \A abc \in ArticleCuts(s) :
                             Plain(Val(Result), WordNumber(Lower(Cut(s, abc[2] + 1, abc[3]))),
                                   Drop(s, abc[3]))
                    ELSE IF WordCuts(s) # {}
                    THEN \A a \in WordCuts(s) :
                             Plain(Val(Result), WordNumber(Lower(Take(s, a))), Drop(s, a))
                    ELSE Plain(Val(Result), 1, s))

\* a segment of two adjacent numbers and an item, which the "N item"
\* pattern matches as well, has been parsed by the "N size item" pattern
C25_SizeBeforePlainNumber ==
    /\ Called("_parse_single_segment")
    /\ SizeCuts(Strip(Args[1])) # {} /\ NumberCuts(Strip(Args[1])) # {}
    /\ QtyCuts(Strip(Args[1])) = {} /\ NxCuts(Strip(Args[1])) = {}
    /\ Val(Result).qty = 5
    /\ Contains(Val(Result).normalizedName, S_inch)
    /\ ~Contains(Args[1], S_inch)

(***************************************************************************)
(* C26: every line item that extract_line_items returns and every item     *)
(* that parse_items_from_message returns has a quantity of at least 1,     *)
(* whatever the message, also one that writes a quantity of 0.             *)
(***************************************************************************)
C26_QuantityAtLeastOne ==
    /\ Called("extract_line_items") => \A i \in 1..Len(Result) : Result[i].qty >= 1
    /\ Called("parse_items_from_message") => \A i \in 1..Len(Result) : Result[i].quantity >= 1

(***************************************************************************)
(* C27: in every quote that is stored in the audit log or returned, after  *)
(* the pricing pass and after any number of feedback submissions, total =  *)
(* subtotal + the amounts of all the fees (a goodwill fee is negative) +   *)
(* tax.                                                                    *)
(***************************************************************************)
RECURSIVE FeeSum(_)
FeeSum(fees) == IF fees = <<>> THEN 0 ELSE fees[1].amount + FeeSum(Tail(fees))
Balanced(quote) == quote.total = quote.subtotal + FeeSum(quote.fees) + quote.tax
QuoteKinds == {"pricing", "policy_guardrails", "feedback_apply"}
GoodwillFees(quote) ==
    {k \in 1..Len(quote.fees) :
        "rule" \in DOMAIN quote.fees[k] /\ quote.fees[k].rule = "goodwill_discount"}

C27_TotalIsSumOfParts ==
    /\ \A rid \in 1..Len(steps) : \A k \in 1..Len(steps[rid]) :
           steps[rid][k].kind \in QuoteKinds => Balanced(steps[rid][k].output)
    /\ \A r \in Req :
           Returned(r) /\ ~IsNone(Answer(r).quote) => Balanced(Val(Answer(r).quote))
    /\ ~IsNone(fb) /\ ~IsNone(Val(fb).resp.quote) => Balanced(Val(Val(fb).resp.quote))

\* a quote with fees and tax has come back from two low ratings with two
\* goodwill fees
C27_TwoGoodwillFeesReturned ==
    /\ ~IsNone(fb) /\ ~IsNone(Val(fb).resp.quote)
    /\ Cardinality(GoodwillFees(Val(Val(fb).resp.quote))) = 2
    /\ Len(Val(Val(fb).resp.quote).fees) > 2
    /\ Val(Val(fb).resp.quote).tax > 0

(***************************************************************************)
(* C28: every run that start_run created eventually has the status         *)
(* 'finished', whichever way run_quote ends: success, a pricing or         *)
(* guardrail error, a store failure while recording a step, or a failure   *)
(* while shaping the response.                                             *)
(***************************************************************************)
Created(rid) == rid <= Len(runs)
Finished(rid) == Created(rid) /\ runs[rid].status = "finished"
C28_EveryRunFinishes == \A rid \in Req : Created(rid) ~> Finished(rid)

(***************************************************************************)
(* C29: feedback for a run that has neither a 'policy_guardrails' nor a    *)
(* 'feedback_apply' step (an unknown run id, or a run that failed before   *)
(* it passed the guardrail) is rejected as resource not found and changes  *)
(* nothing: no step is appended and no run row is updated.  The one other  *)
(* answer is the database error of a store that failed the SELECT.         *)
(***************************************************************************)
NoQuoteStep(rid) ==
    \/ rid \notin 1..Len(steps)
    \/ \A k \in 1..Len(steps[rid]) :
           steps[rid][k].kind \notin {"policy_guardrails", "feedback_apply"}
\* the step is a feedback request being handled
FeedbackHandled == nfb' = nfb + 1

C29_NoQuoteNoFeedback ==
    [][FeedbackHandled /\ NoQuoteStep(Val(fb').run_id) =>
          /\ Val(fb').resp \in {ResourceNotFoundError, DatabaseError("Failed to process feedback")}
          /\ steps' = steps
          /\ runs' = runs]_vars

\* feedback for a run that got as far as its 'pricing' step and failed at
\* the guardrail has been rejected as not found, the run as it was
C29_FailedRunRejected ==
    /\ ~IsNone(fb)
    /\ Val(fb).resp = ResourceNotFoundError
    /\ Val(fb).run_id \in 1..Len(steps)
    /\ \E k \in 1..Len(steps[Val(fb).run_id]) : steps[Val(fb).run_id][k].kind = "pricing"
    /\ NoQuoteStep(Val(fb).run_id)
    /\ runs[Val(fb).run_id].status = "finished"

(***************************************************************************)
(* C30: the quote a 'feedback_apply' step stores has the subtotal and the  *)
(* tax of the run's previous latest quote; with a rating of 4 or 5 also    *)
(* its fee list and its total; only a rating of 3 or less on a positive    *)
(* subtotal appends the goodwill fee of -round(subtotal * 0.10, 2) and     *)
(* lowers the total by that amount.                                        *)
(***************************************************************************)
\* the output of the latest step of the run that holds a quote for feedback
LatestQuote(st, rid) ==
    LET K == {k \in 1..Len(st[rid]) : st[rid][k].kind \in {"policy_guardrails", "feedback_apply"}}
    IN  st[rid][CHOOSE k \in K : \A j \in K : j <= k].output
MoneyOf(quote) == <<quote.subtotal, quote.tax, quote.fees, quote.total>>
\* the step appends a 'feedback_apply' step to the run the feedback names
FeedbackApplied ==
    /\ FeedbackHandled
    /\ Val(fb').run_id \in 1..Len(steps)
    /\ Len(steps'[Val(fb').run_id]) = Len(steps[Val(fb').run_id]) + 1

C30_HighRatingKeepsMoney ==
    [][FeedbackApplied =>
          LET rid    == Val(fb').run_id
              rating == Val(fb').rating
              before == LatestQuote(steps, rid)
              after  == steps'[rid][Len(steps'[rid])]
          IN  /\ after.kind = "feedback_apply"
              /\ after.output.subtotal = before.subtotal
              /\ after.output.tax = before.tax
              /\ IF rating <= 3 /\ before.subtotal > 0
                 THEN \E discount \in {before.total - after.output.total} :
                          /\ Rounds(discount, before.subtotal * GoodwillRate, 100)
                          /\ after.output.fees
                                 = Append(before.fees,
                                          [rule |-> "goodwill_discount", amount |-> -discount])
                 ELSE /\ after.output.fees = before.fees
                      /\ after.output.total = before.total]_vars

\* a rating of 5 has been recorded after a rating of 3: the quote of the
\* second 'feedback_apply' step is that of the first, goodwill fee included
C30_FiveAfterThree ==
    /\ ~IsNone(fb) /\ Val(fb).rating = 5 /\ Val(fb).resp.status = 200
    /\ \E first, second \in StepsOfKind(Val(fb).run_id, {"feedback_apply"}) :
           /\ first < second
           /\ Cardinality(GoodwillFees(steps[Val(fb).run_id][first].output)) = 1
           /\ MoneyOf(steps[Val(fb).run_id][second].output)
                  = MoneyOf(steps[Val(fb).run_id][first].output)
====
